---- MODULE Spec2Model ----
(***************************************************************************)
(* Two-level logic minimizer of lab1 (Quine-McCluskey prime generation,    *)
(* essential extraction, greedy cover completion, SOP / cube rendering).   *)
(*                                                                         *)
(* A cube ("implicant", a Python str over '0','1','-') is a sequence of    *)
(* one-character strings; an assignment is a cube without '-'.  Python     *)
(* lists are sequences, Python sets are sets, Python dicts are functions.  *)
(***************************************************************************)
EXTENDS Integers, Sequences, FiniteSets, TLC

\* ------------------------------------------------------------------ bounds
\* Largest number of input variables of the truth tables of Init.
MaxN == 3
\* Four-variable tables of InitWide: number of inputs and size of the on-set
\* (no don't-cares).
WideN == 4
WideOn == 8
\* Direct calls of greedy_complete_cover (InitGreedy): longest pis list and
\* largest assignment index.
MaxPis == 2
MaxIdx == 1
\* Runs of run_from_sum_file on arbitrary parsed specs (InitRun): largest
\* number of inputs; every on-set and dc-set is a subset of -1..2^N.
RunN == 1
\* Runs of run_from_sum_file on the specs that pass validation (InitMulti):
\* largest number of inputs.
MultiN == 2
\* Direct calls of the algebra and rendering functions (InitPure): longest
\* cube, length of the cubes of a list, longest list, most output columns.
PureLen == 3
ListCube == 2
PureList == 2
PureOutputs == 3

\* ------------------------------------------------------- string primitives
\* Code point of a cube character: '-' < '0' < '1' in Python's str order.
Ord(ch) == CASE ch = "-" -> 45 [] ch = "0" -> 48 [] ch = "1" -> 49

Min2(a, b) == IF a <= b THEN a ELSE b

\* Python's a < b on str: first differing position decides, a proper prefix
\* is smaller.
RECURSIVE StrLessFrom(_, _, _)
StrLessFrom(a, b, i) ==
    IF i > Len(a) \/ i > Len(b) THEN Len(a) < Len(b)
    ELSE IF a[i] = b[i] THEN StrLessFrom(a, b, i + 1)
    ELSE Ord(a[i]) < Ord(b[i])

StrLess(a, b) == StrLessFrom(a, b, 1)

\* sorted(S) for a set S of str: ascending list without duplicates.
RECURSIVE SortedSet(_)
SortedSet(S) ==
    IF S = {} THEN <<>>
    ELSE LET m == CHOOSE x \in S : \A y \in S : y = x \/ StrLess(x, y)
         IN  <<m>> \o SortedSet(S \ {m})

SeqToSet(s) == {s[i] : i \in 1..Len(s)}

\* s.count(ch)
Count(s, ch) == Cardinality({i \in 1..Len(s) : s[i] = ch})

\* sorted(terms, key=lambda s: s.count('1')): stable sort of a list by its
\* number of '1' characters, built key by key from key k up to key top.
RECURSIVE ByOnesFrom(_, _, _)
ByOnesFrom(terms, k, top) ==
    IF k > top THEN <<>>
    ELSE SelectSeq(terms, LAMBDA t : Count(t, "1") = k) \o ByOnesFrom(terms, k + 1, top)

MaxLen(terms) ==
    IF terms = <<>> THEN 0
    ELSE LET i == CHOOSE i \in 1..Len(terms) : \A j \in 1..Len(terms) : Len(terms[j]) <= Len(terms[i])
         IN  Len(terms[i])

StableSortByOnes(terms) == ByOnesFrom(terms, 0, MaxLen(terms))

\* ------------------------------------------------------- implicant algebra
\* The value Python's None takes in the model (no cube has this shape).
None == <<"None">>

\* combine_if_one_bit_diff: the zip loop from position i on, with diff
\* differences counted and out built so far.
RECURSIVE CombineFrom(_, _, _, _, _)
CombineFrom(a, b, i, diff, out) ==
    IF i > Min2(Len(a), Len(b))
    THEN IF diff # 1 THEN None ELSE out
    ELSE IF a[i] = b[i] THEN CombineFrom(a, b, i + 1, diff, Append(out, a[i]))
    ELSE IF a[i] = "-" \/ b[i] = "-" THEN None
    ELSE IF diff + 1 > 1 THEN None
    ELSE CombineFrom(a, b, i + 1, diff + 1, Append(out, "-"))

\* Variant of combine_if_one_bit_diff that accepts any number (at least one)
\* of opposite fixed positions.
RECURSIVE CombineAnyFrom(_, _, _, _, _)
CombineAnyFrom(a, b, i, diff, out) ==
    IF i > Min2(Len(a), Len(b))
    THEN IF diff = 0 THEN None ELSE out
    ELSE IF a[i] = b[i] THEN CombineAnyFrom(a, b, i + 1, diff, Append(out, a[i]))
    ELSE IF a[i] = "-" \/ b[i] = "-" THEN None
    ELSE CombineAnyFrom(a, b, i + 1, diff + 1, Append(out, "-"))

combine_any_bit_diff(a, b) == CombineAnyFrom(a, b, 1, 0, <<>>)

\* Variant of combine_if_one_bit_diff without the final test diff != 1 for
\* identical cubes: a cube combines with itself.
combine_up_to_one_bit_diff(a, b) ==
    IF a = b THEN a ELSE CombineFrom(a, b, 1, 0, <<>>)

combine_if_one_bit_diff(a, b) == CombineFrom(a, b, 1, 0, <<>>)

\* Variant of GroupSorted whose inner loop tries only the next term
\* (j = i + 1) instead of every later term.
GroupSortedAdjacent(ts) ==
    LET L == Len(ts)
        Hits == {p \in (1..L) \X (1..L) :
                    p[2] = p[1] + 1 /\ combine_if_one_bit_diff(ts[p[1]], ts[p[2]]) # None}
        new_terms_set == {combine_if_one_bit_diff(ts[p[1]], ts[p[2]]) : p \in Hits}
        used == {ts[p[1]] : p \in Hits} \cup {ts[p[2]] : p \in Hits}
    IN  <<SortedSet(new_terms_set), SelectSeq(ts, LAMBDA t : t \notin used)>>

\* The double loop of group_once over the sorted list ts and its result
\* <<new_terms, leftovers>>.
GroupSorted(ts) ==
    LET L == Len(ts)
        Comb == [i \in 1..L |-> [j \in 1..L |->
                    IF i < j THEN combine_if_one_bit_diff(ts[i], ts[j]) ELSE None]]
        Hits == {p \in (1..L) \X (1..L) : p[1] < p[2] /\ Comb[p[1]][p[2]] # None}
        new_terms_set == {Comb[p[1]][p[2]] : p \in Hits}
        used == {ts[p[1]] : p \in Hits} \cup {ts[p[2]] : p \in Hits}
        leftovers == SelectSeq(ts, LAMBDA t : t \notin used)
    IN  <<SortedSet(new_terms_set), leftovers>>

\* Variant of group_once whose new_terms keep the terms of the level they
\* were combined from.
group_once_keeps_level(terms) ==
    LET g == GroupSorted(StableSortByOnes(terms))
    IN  IF g[1] = <<>> THEN g
        ELSE <<SortedSet(SeqToSet(g[1]) \cup SeqToSet(terms)), g[2]>>

group_once(terms) == GroupSorted(StableSortByOnes(terms))

\* all(ic == '-' or ic == xb for ic, xb in zip(implicant, input_bits))
implicant_covers_input(implicant, input_bits) ==
    \A i \in 1..Min2(Len(implicant), Len(input_bits)) :
        implicant[i] = "-" \/ implicant[i] = input_bits[i]

\* Variant of implicant_covers_implicant with the roles of a and b swapped.
implicant_covers_implicant_swapped(a, b) ==
    \A i \in 1..Min2(Len(a), Len(b)) : b[i] = "-" \/ a[i] = b[i]

\* all(xa == '-' or xa == xb for xa, xb in zip(a, b))
implicant_covers_implicant(a, b) ==
    \A i \in 1..Min2(Len(a), Len(b)) : a[i] = "-" \/ a[i] = b[i]

\* Variant of RemoveRedundant that returns the list in descending order
\* (sorted(..., reverse=True) at line 66).
RemoveRedundantDescending(prime_set) ==
    LET pis0 == SortedSet(prime_set)
        non_redundant == {pis0[i] : i \in {i \in 1..Len(pis0) :
                            ~ \E j \in 1..Len(pis0) :
                                i # j /\ implicant_covers_implicant(pis0[j], pis0[i])}}
        asc == SortedSet(non_redundant)
    IN  [i \in 1..Len(asc) |-> asc[Len(asc) + 1 - i]]

\* Lines 60-66 of derive_prime_implicants: drop every implicant covered by an
\* implicant at another position of the sorted list.
RemoveRedundant(prime_set) ==
    LET pis0 == SortedSet(prime_set)
        non_redundant == {pis0[i] : i \in {i \in 1..Len(pis0) :
                            ~ \E j \in 1..Len(pis0) :
                                i # j /\ implicant_covers_implicant(pis0[j], pis0[i])}}
    IN  SortedSet(non_redundant)

\* The while loop of derive_prime_implicants from the state (current, primes).
RECURSIVE DeriveLoop(_, _)
DeriveLoop(cur, primes) ==
    LET g == group_once(cur)
    IN  IF g[1] = <<>> THEN primes \cup SeqToSet(g[2]) \cup SeqToSet(cur)
        ELSE DeriveLoop(g[1], primes \cup SeqToSet(g[2]))

derive_prime_implicants(minterms) ==
    RemoveRedundant(DeriveLoop(SortedSet(SeqToSet(minterms)), {}))

\* ------------------------------------------------------------- truth table
Pow2(k) == 2 ^ k

\* itertools.product('01', repeat=n) joined: binary counting order, the
\* first character the most significant.
RECURSIVE gen_all_input_combinations(_)
gen_all_input_combinations(n_inputs) ==
    IF n_inputs = 0 THEN << <<>> >>
    ELSE LET p == gen_all_input_combinations(n_inputs - 1)
         IN  [k \in 1..(2 * Len(p)) |->
                Append(p[(k + 1) \div 2], IF k % 2 = 1 THEN "0" ELSE "1")]

\* The validation loop of build_outputs_from_minterm_indices: TRUE iff no
\* ValueError is raised.  outputs_spec maps a name to <<on_set, dc_set>>.
SpecPassesValidation(n_inputs, outputs_spec) ==
    LET max_index == Pow2(n_inputs) - 1
    IN  \A name \in DOMAIN outputs_spec :
            LET on_set == outputs_spec[name][1]
                dc_set == outputs_spec[name][2]
            IN  /\ {i \in on_set : i < 0 \/ i > max_index} = {}
                /\ {i \in dc_set : i < 0 \/ i > max_index} = {}
                /\ on_set \cap dc_set = {}

\* The rows loop of build_outputs_from_minterm_indices; rows[i + 1] is the
\* Python rows[i].
BuildRows(n_inputs, out_names, outputs_spec) ==
    [r \in 1..Pow2(n_inputs) |->
        [j \in 1..Len(out_names) |->
            LET i == r - 1
                on_set == outputs_spec[out_names[j]][1]
                dc_set == outputs_spec[out_names[j]][2]
            IN  IF i \in on_set THEN "1"
                ELSE IF i \in dc_set THEN "-"
                ELSE "0"]]

\* Code point of an output name of one letter.
NameOrd(name) == CASE name = "f" -> 102 [] name = "g" -> 103

\* sorted(outputs_spec.keys()) for names of one letter.
RECURSIVE SortedNames(_)
SortedNames(S) ==
    IF S = {} THEN <<>>
    ELSE LET m == CHOOSE x \in S : \A y \in S : NameOrd(x) <= NameOrd(y)
         IN  <<m>> \o SortedNames(S \ {m})

\* A raised ValueError: what its message is about, the output it names and
\* the indices it lists.
ValueError(kind, name, indices) == <<"ValueError", kind, name, indices>>

\* [i for i in s if i < 0 or i > max_index], as a set.
BadIndices(index_set, max_index) == {i \in index_set : i < 0 \/ i > max_index}

\* Variant of ValidateItem without the overlap test of line 34.
ValidateItemRangeOnly(name, on_set, dc_set, max_index) ==
    IF BadIndices(on_set, max_index) # {}
    THEN ValueError("invalid ON indices", name, BadIndices(on_set, max_index))
    ELSE IF BadIndices(dc_set, max_index) # {}
    THEN ValueError("invalid DC indices", name, BadIndices(dc_set, max_index))
    ELSE None

\* One pass of the body of the validation loop: the error it raises, or None.
ValidateItem(name, on_set, dc_set, max_index) ==
    IF BadIndices(on_set, max_index) # {}
    THEN ValueError("invalid ON indices", name, BadIndices(on_set, max_index))
    ELSE IF BadIndices(dc_set, max_index) # {}
    THEN ValueError("invalid DC indices", name, BadIndices(dc_set, max_index))
    ELSE IF on_set \cap dc_set # {}
    THEN ValueError("overlap between ON and DC", name, on_set \cap dc_set)
    ELSE None

\* The validation loop over outputs_spec.items() from item j of the dict
\* order on: the first error raised, or None.
RECURSIVE ValidateFrom(_, _, _, _)
ValidateFrom(order, spec, max_index, j) ==
    IF j > Len(order) THEN None
    ELSE LET r == ValidateItem(order[j], spec[order[j]][1], spec[order[j]][2], max_index)
         IN  IF r # None THEN r ELSE ValidateFrom(order, spec, max_index, j + 1)

\* Variant of build_outputs_from_minterm_indices whose columns follow the
\* dict order (out_names = list(outputs_spec.keys())).
build_outputs_in_dict_order(n, order, spec) ==
    IF n < 1 THEN <<ValueError("n_inputs must be >= 1", "", {}), None>>
    ELSE LET raised == ValidateFrom(order, spec, Pow2(n) - 1, 1)
         IN  IF raised # None THEN <<raised, None>>
             ELSE <<None, <<gen_all_input_combinations(n),
                            BuildRows(n, order, spec), order>>>>

\* build_outputs_from_minterm_indices for a dict with keys in the order
\* `order`: <<error, None>> when it raises, else
\* <<None, <<inputs_bits, rows, out_names>>>>.
build_outputs_from_minterm_indices(n, order, spec) ==
    IF n < 1 THEN <<ValueError("n_inputs must be >= 1", "", {}), None>>
    ELSE LET raised == ValidateFrom(order, spec, Pow2(n) - 1, 1)
             out_names == SortedNames(SeqToSet(order))
         IN  IF raised # None THEN <<raised, None>>
             ELSE <<None, <<gen_all_input_combinations(n),
                            BuildRows(n, out_names, spec), out_names>>>>

\* f"x{i+1}" for i in range(n_inputs)
DefaultNames(n_inputs) == [i \in 1..n_inputs |-> "x" \o ToString(i)]

\* ------------------------------------------------------------ cover select
\* {bits: idx for idx, bits in enumerate(inputs_bits)}: a later duplicate
\* overwrites an earlier one; idx is the Python (0-based) index.
IdxByBits(inputs) ==
    [b \in SeqToSet(inputs) |->
        (CHOOSE i \in 1..Len(inputs) :
            inputs[i] = b /\ \A j \in 1..Len(inputs) : inputs[j] = b => j <= i) - 1]

\* Variant of BitsWhere that reads the first column whatever k is.
BitsWhereFirstColumn(inputs, outputs, k, ch) ==
    LET L == Min2(Len(inputs), Len(outputs))
        Pick[i \in 0..L] ==
            IF i = 0 THEN <<>>
            ELSE IF outputs[i][1] = ch THEN Append(Pick[i - 1], inputs[i])
            ELSE Pick[i - 1]
    IN  Pick[L]

\* [x for x, y in zip(inputs_bits, outputs_trits) if y[which_output] == ch]
BitsWhere(inputs, outputs, k, ch) ==
    LET L == Min2(Len(inputs), Len(outputs))
        Pick[i \in 0..L] ==
            IF i = 0 THEN <<>>
            ELSE IF outputs[i][k + 1] = ch THEN Append(Pick[i - 1], inputs[i])
            ELSE Pick[i - 1]
    IN  Pick[L]

\* Variant of BuildCovers without the test `bits in onset_bits`: an implicant
\* is charged with every assignment it covers.
BuildCoversOfAnyRow(pi_list, inputs, onset) ==
    LET idx == IdxByBits(inputs)
    IN  [pi \in SeqToSet(pi_list) |->
            {idx[b] : b \in {b \in DOMAIN idx : implicant_covers_input(pi, b)}}]

\* The covers dict of select_cover_for_one_output (lines 101-107).
BuildCovers(pi_list, inputs, onset) ==
    LET idx == IdxByBits(inputs)
    IN  [pi \in SeqToSet(pi_list) |->
            {idx[b] : b \in {b \in DOMAIN idx :
                b \in SeqToSet(onset) /\ implicant_covers_input(pi, b)}}]

\* The minterm_to_pis dict of select_cover_for_one_output (lines 109-113).
BuildMintermToPis(cov, on_idx) ==
    [i \in on_idx |-> {pi \in DOMAIN cov : i \in cov[pi]}]

\* Variant of pick_epis that also takes both candidates of an assignment
\* with two candidates (len(cand) <= 2).
pick_epis_up_to_two(table) ==
    LET e == UNION {table[m] : m \in {m \in DOMAIN table : Cardinality(table[m]) <= 2}}
        c == IF e # {} THEN {m \in DOMAIN table : \E pi \in e : pi \in table[m]} ELSE {}
    IN  <<e, c>>

\* pick_epis: <<epis, covered>>.
pick_epis(table) ==
    LET e == UNION {table[m] : m \in {m \in DOMAIN table : Cardinality(table[m]) = 1}}
        c == IF e # {} THEN {m \in DOMAIN table : \E pi \in e : pi \in table[m]} ELSE {}
    IN  <<e, c>>

\* covers.get(pi, set())
CoversGet(cov, pi) == IF pi \in DOMAIN cov THEN cov[pi] ELSE {}

\* Variant of score_pi_for_greedy whose cover_gain counts every assignment
\* the implicant covers (len(covers[pi]) without "& uncovered").
score_pi_total_cover(pi, unc, cov) ==
    LET cover_gain == Cardinality(CoversGet(cov, pi))
        dash_count == Count(pi, "-")
        literal_count == Len(pi) - dash_count
    IN  <<cover_gain, dash_count, 0 - literal_count>>

\* score_pi_for_greedy: (cover_gain, dash_count, -literal_count)
score_pi_for_greedy(pi, unc, cov) ==
    LET cover_gain == Cardinality(CoversGet(cov, pi) \cap unc)
        dash_count == Count(pi, "-")
        literal_count == Len(pi) - dash_count
    IN  <<cover_gain, dash_count, 0 - literal_count>>

\* Python's a > b on tuples of three ints.
TupleGreater(a, b) ==
    \/ a[1] > b[1]
    \/ a[1] = b[1] /\ a[2] > b[2]
    \/ a[1] = b[1] /\ a[2] = b[2] /\ a[3] > b[3]

\* Variant of BestOf whose comparison is >= (a later entry of equal score
\* replaces the best so far).
BestOfLastTie(rem, unc, cov) ==
    LET Scan[i \in 0..Len(rem)] ==
            IF i = 0 THEN <<None, <<0, 0, 0>> >>
            ELSE LET sc == score_pi_for_greedy(rem[i], unc, cov)
                 IN  IF ~ TupleGreater(Scan[i - 1][2], sc) THEN <<rem[i], sc>>
                     ELSE Scan[i - 1]
    IN  Scan[Len(rem)]

\* The for loop of greedy_complete_cover (lines 41-45) over the list rem:
\* <<best_pi, best_score>> after the first i entries.
BestOf(rem, unc, cov) ==
    LET Scan[i \in 0..Len(rem)] ==
            IF i = 0 THEN <<None, <<0, 0, 0>> >>
            ELSE LET sc == score_pi_for_greedy(rem[i], unc, cov)
                 IN  IF TupleGreater(sc, Scan[i - 1][2]) THEN <<rem[i], sc>>
                     ELSE Scan[i - 1]
    IN  Scan[Len(rem)]

\* Variant of GreedyEntry that starts from an empty selection
\* (selected = set() instead of set(already_selected)).
GreedyEntryDropsSelected(pi_list, cov, already_selected, all_on_indices) ==
    <<{},
      all_on_indices \ UNION {CoversGet(cov, pi) : pi \in already_selected},
      SelectSeq(pi_list, LAMBDA pi : pi \notin already_selected)>>

\* Variant of GreedyEntry without the loop of lines 37-38 (uncovered starts
\* as all of all_on_indices).
GreedyEntryKeepsCovered(pi_list, cov, already_selected, all_on_indices) ==
    <<already_selected,
      all_on_indices,
      SelectSeq(pi_list, LAMBDA pi : pi \notin already_selected)>>

\* greedy_complete_cover lines 35-39: <<selected, uncovered, remaining>> on
\* entry to the while loop.
GreedyEntry(pi_list, cov, already_selected, all_on_indices) ==
    <<already_selected,
      all_on_indices \ UNION {CoversGet(cov, pi) : pi \in already_selected},
      SelectSeq(pi_list, LAMBDA pi : pi \notin already_selected)>>

\* Variant of GreedyStops that also breaks when the best candidate gains a
\* single assignment (best_score[0] <= 1).
GreedyStopsEarly(unc, rem, cov) ==
    \/ unc = {}
    \/ BestOf(rem, unc, cov)[1] = None
    \/ BestOf(rem, unc, cov)[2][1] <= 1

\* greedy_complete_cover lines 40 and 46: TRUE iff the while loop ends here
\* (its condition fails or the break is taken).
GreedyStops(unc, rem, cov) ==
    \/ unc = {}
    \/ BestOf(rem, unc, cov)[1] = None
    \/ BestOf(rem, unc, cov)[2][1] = 0

\* Variant of GreedyBody without selected.add(best_pi).
GreedyBodyForgetsPick(sel, unc, rem, cov) ==
    LET best_pi == BestOf(rem, unc, cov)[1]
    IN  <<sel, unc \ CoversGet(cov, best_pi), SelectSeq(rem, LAMBDA pi : pi # best_pi)>>

\* Variant of GreedyBody without line 49 (uncovered keeps the assignments
\* the pick covers).
GreedyBodyKeepsUncovered(sel, unc, rem, cov) ==
    LET best_pi == BestOf(rem, unc, cov)[1]
    IN  <<sel \cup {best_pi}, unc, SelectSeq(rem, LAMBDA pi : pi # best_pi)>>

\* greedy_complete_cover lines 48-50: <<selected, uncovered, remaining>>
\* after an iteration that selects.
GreedyBody(sel, unc, rem, cov) ==
    LET best_pi == BestOf(rem, unc, cov)[1]
    IN  <<sel \cup {best_pi},
          unc \ CoversGet(cov, best_pi),
          SelectSeq(rem, LAMBDA pi : pi # best_pi)>>

\* Variant of FilterOff with the test inverted (any instead of not any).
FilterOffInverted(pi_list, off) ==
    SelectSeq(pi_list, LAMBDA pi : \E xoff \in off : implicant_covers_input(pi, xoff))

\* The off-set filter of select_cover_for_one_output (lines 91-95).
FilterOff(pi_list, off) ==
    SelectSeq(pi_list, LAMBDA pi : ~ \E xoff \in off : implicant_covers_input(pi, xoff))

\* The while loop of greedy_complete_cover from <<selected, uncovered,
\* remaining>> to the returned <<selected, uncovered>>.
RECURSIVE GreedyLoop(_, _, _, _)
GreedyLoop(sel, unc, rem, cov) ==
    IF GreedyStops(unc, rem, cov) THEN <<sel, unc>>
    ELSE LET b == GreedyBody(sel, unc, rem, cov)
         IN  GreedyLoop(b[1], b[2], b[3], cov)

greedy_complete_cover(pi_list, cov, already_selected, all_on_indices) ==
    LET e == GreedyEntry(pi_list, cov, already_selected, all_on_indices)
    IN  GreedyLoop(e[1], e[2], e[3], cov)

\* ------------------------------------------------------------ output
\* ''.join(parts)
JoinAll(parts) ==
    LET J[i \in 0..Len(parts)] == IF i = 0 THEN "" ELSE J[i - 1] \o parts[i]
    IN  J[Len(parts)]

\* Variant of implicant_to_product_term whose default names count from the
\* last position (x1 the least significant).
implicant_to_product_term_lsb(implicant, names) ==
    LET N == Len(implicant)
        local_names == IF names = None THEN [i \in 1..N |-> "x" \o ToString(N + 1 - i)]
                       ELSE names
        L == Min2(N, Len(local_names))
        Terms[i \in 0..L] ==
            IF i = 0 THEN <<>>
            ELSE IF implicant[i] = "1" THEN Append(Terms[i - 1], local_names[i])
            ELSE IF implicant[i] = "0" THEN Append(Terms[i - 1], local_names[i] \o "'")
            ELSE Terms[i - 1]
    IN  IF Terms[L] # <<>> THEN JoinAll(Terms[L]) ELSE "1"

\* implicant_to_product_term
implicant_to_product_term(implicant, names) ==
    LET local_names == IF names = None THEN DefaultNames(Len(implicant)) ELSE names
        L == Min2(Len(implicant), Len(local_names))
        Terms[i \in 0..L] ==
            IF i = 0 THEN <<>>
            ELSE IF implicant[i] = "1" THEN Append(Terms[i - 1], local_names[i])
            ELSE IF implicant[i] = "0" THEN Append(Terms[i - 1], local_names[i] \o "'")
            ELSE Terms[i - 1]
    IN  IF Terms[L] # <<>> THEN JoinAll(Terms[L]) ELSE "1"

\* Variant of build_sum_of_products without the empty-list case: ' + '.join
\* of an empty list is the empty string.
build_sum_of_products_join_only(sel, names) ==
    LET Join[i \in 0..Len(sel)] ==
            IF i = 0 THEN ""
            ELSE IF i = 1 THEN implicant_to_product_term(sel[1], names)
            ELSE Join[i - 1] \o " + " \o implicant_to_product_term(sel[i], names)
    IN  Join[Len(sel)]

\* Variant of build_sum_of_products that joins the terms last to first.
build_sum_of_products_reversed(sel, names) ==
    LET Join[i \in 1..Len(sel)] ==
            IF i = 1 THEN implicant_to_product_term(sel[1], names)
            ELSE implicant_to_product_term(sel[i], names) \o " + " \o Join[i - 1]
    IN  IF sel # <<>> THEN Join[Len(sel)] ELSE "0"

\* build_sum_of_products
build_sum_of_products(sel, names) ==
    LET Join[i \in 1..Len(sel)] ==
            IF i = 1 THEN implicant_to_product_term(sel[1], names)
            ELSE Join[i - 1] \o " + " \o implicant_to_product_term(sel[i], names)
    IN  IF sel # <<>> THEN Join[Len(sel)] ELSE "0"

\* Variant of cubes_for_espresso that writes the indicator one position to
\* the left of the current output's.
cubes_for_espresso_shifted(sel, n_outputs, k) ==
    [r \in 1..Len(sel) |->
        sel[r] \o <<" ">> \o [j \in 1..n_outputs |-> IF j = k THEN "1" ELSE "0"]]

\* cubes_for_espresso: a row f"{pi} {''.join(y)}" is, like a cube, the
\* sequence of its characters.
cubes_for_espresso(sel, n_outputs, k) ==
    [r \in 1..Len(sel) |->
        sel[r] \o <<" ">> \o [j \in 1..n_outputs |-> IF j = k + 1 THEN "1" ELSE "0"]]

\* select_cover_for_one_output as a function of its arguments:
\* <<selected_pis, uncovered, sop, cubes>>.
select_cover_for_one_output(inputs, outputs, k, names) ==
    LET on_b == BitsWhere(inputs, outputs, k, "1")
        dc_b == BitsWhere(inputs, outputs, k, "-")
        un_b == SortedSet(SeqToSet(on_b) \cup SeqToSet(dc_b))
        pi_list == FilterOff(derive_prime_implicants(un_b), SeqToSet(inputs) \ SeqToSet(un_b))
        on_idx == {IdxByBits(inputs)[b] : b \in SeqToSet(on_b)}
        cov == BuildCovers(pi_list, inputs, on_b)
        table == BuildMintermToPis(cov, on_idx)
        g == greedy_complete_cover(pi_list, cov, pick_epis(table)[1], on_idx)
        sel == SortedSet(g[1])
    IN  <<sel, g[2], build_sum_of_products(sel, names),
          cubes_for_espresso(sel, Len(outputs[1]), k)>>

\* ------------------------------------------------------------ state
VARIABLES
    pc,               \* position in select_cover_for_one_output
    inputs_bits,      \* argument: the 2^N assignments
    outputs_trits,    \* argument: one row of M symbols per assignment
    which_output,     \* argument: 0-based output column
    var_names,        \* argument input_var_names
    onset_bits, union_bits, off_bits,
    current,          \* derive_prime_implicants: current level
    prime_implicants, \* derive_prime_implicants: accumulated set
    pis,              \* prime implicant list
    on_indices, covers, minterm_to_pis,
    epis,             \* result of pick_epis / already_selected
    selected, uncovered, remaining,   \* greedy_complete_cover locals
    todo,             \* entries a for loop over a set or dict has yet to visit
    selected_pis, sop, cubes,         \* results
    n_inputs,         \* run_from_sum_file: argument n_inputs
    outputs_spec,     \* run_from_sum_file: parsed spec, name -> <<on_set, dc_set>>
    spec_order,       \* run_from_sum_file: the names of spec in dict order
    output_names,     \* run_from_sum_file: sorted names of the columns
    error,            \* run_from_sum_file: the exception raised, or None
    visited,          \* run_from_sum_file: columns already minimized, in order
    all_cubes,        \* run_from_sum_file: rows collected so far
    pla_text,         \* run_from_sum_file: the text returned
    fn, fn_args, fn_result,           \* a direct call: function, arguments, return value
    lineno, line,     \* parse_sum_of_minterms_file: number and text of the line read
    num_vars,         \* BDD: number of variables of the manager
    next_id,          \* BDD: id the next new node gets
    unique_table,     \* BDD: <<var, low id, high id>> -> node
    all_nodes         \* BDD: id -> node, every node of the manager

vars == <<pc, inputs_bits, outputs_trits, which_output, var_names,
          onset_bits, union_bits, off_bits, current, prime_implicants, pis,
          on_indices, covers, minterm_to_pis, epis, selected, uncovered,
          remaining, todo, selected_pis, sop, cubes,
          n_inputs, outputs_spec, spec_order, output_names, error, visited,
          all_cubes, pla_text, fn, fn_args, fn_result,
          lineno, line, num_vars, next_id, unique_table, all_nodes>>

run_locals == <<n_inputs, outputs_spec, spec_order, output_names, error, visited,
                all_cubes, pla_text>>
direct_call == <<fn, fn_args, fn_result>>
parse_locals == <<lineno, line>>
manager == <<num_vars, next_id, unique_table, all_nodes>>

args == <<inputs_bits, outputs_trits, which_output, var_names>>
derive_locals == <<current, prime_implicants>>
table_locals == <<on_indices, covers, minterm_to_pis>>
greedy_locals == <<selected, uncovered, remaining>>
results == <<selected_pis, sop, cubes>>

\* Locals of a call that has not started.
Fresh ==
    /\ onset_bits = <<>> /\ union_bits = <<>> /\ off_bits = {}
    /\ current = <<>> /\ prime_implicants = {} /\ pis = <<>>
    /\ on_indices = {} /\ covers = <<>> /\ minterm_to_pis = <<>>
    /\ epis = {}
    /\ selected = {} /\ uncovered = {} /\ remaining = <<>>
    /\ todo = {}
    /\ selected_pis = <<>> /\ sop = "" /\ cubes = <<>>

\* No direct call of a function is in progress.
NoDirectCall == fn = "" /\ fn_args = <<>> /\ fn_result = None

\* No file is being parsed.
NoParse == lineno = 0 /\ line = <<>>

\* No BDD manager has been constructed.
NoManager == num_vars = 0 /\ next_id = 0 /\ unique_table = <<>> /\ all_nodes = <<>>

\* The locals of run_from_sum_file of a run that built the table of the one
\* output "f" and is about to minimize it.
RunOfF(n, spec) ==
    /\ n_inputs = n /\ outputs_spec = spec
    /\ spec_order = <<"f">> /\ output_names = <<"f">>
    /\ error = None /\ visited = <<>> /\ all_cubes = <<>> /\ pla_text = ""

\* No run of run_from_sum_file is in progress.
NoRun ==
    /\ n_inputs = 0 /\ outputs_spec = <<>>
    /\ spec_order = <<>> /\ output_names = <<>>
    /\ error = None /\ visited = <<>> /\ all_cubes = <<>> /\ pla_text = ""

\* run_from_sum_file up to the call of select_cover_for_one_output: a spec of
\* one output "f" that passes validation, its truth table, default names.
Init ==
    /\ pc = "start"
    /\ \E n \in 1..MaxN :
       \E on_set \in SUBSET (0..(Pow2(n) - 1)) :
       \E dc_set \in SUBSET ((0..(Pow2(n) - 1)) \ on_set) :
          LET spec == [name \in {"f"} |-> <<on_set, dc_set>>]
          IN  /\ SpecPassesValidation(n, spec)
              /\ inputs_bits = gen_all_input_combinations(n)
              /\ outputs_trits = BuildRows(n, <<"f">>, spec)
              /\ var_names = DefaultNames(n)
              /\ RunOfF(n, spec)
    /\ which_output = 0
    /\ Fresh
    /\ NoDirectCall
    /\ NoParse
    /\ NoManager

\* Variant of Start whose union_bits is the on-set alone, so that the
\* off-set of line 89 takes the don't-care rows in.
StartUnionIsOnSet ==
    /\ pc = "start"
    /\ LET on_b == BitsWhere(inputs_bits, outputs_trits, which_output, "1")
           dc_b == BitsWhere(inputs_bits, outputs_trits, which_output, "-")
           un_b == SortedSet(SeqToSet(on_b) \cup SeqToSet(dc_b))
       IN  /\ onset_bits' = on_b
           /\ union_bits' = on_b
           /\ current' = SortedSet(SeqToSet(un_b))
    /\ prime_implicants' = {}
    /\ pc' = "group"
    /\ UNCHANGED <<run_locals, direct_call, parse_locals, manager, args, todo, off_bits, pis, table_locals, epis, greedy_locals, results>>

\* select_cover_for_one_output lines 82-84 and derive_prime_implicants line 51.
Start ==
    /\ pc = "start"
    /\ LET on_b == BitsWhere(inputs_bits, outputs_trits, which_output, "1")
           dc_b == BitsWhere(inputs_bits, outputs_trits, which_output, "-")
           un_b == SortedSet(SeqToSet(on_b) \cup SeqToSet(dc_b))
       IN  /\ onset_bits' = on_b
           /\ union_bits' = un_b
           /\ current' = SortedSet(SeqToSet(un_b))
    /\ prime_implicants' = {}
    /\ pc' = "group"
    /\ UNCHANGED <<run_locals, direct_call, parse_locals, manager, args, todo, off_bits, pis, table_locals, epis, greedy_locals, results>>

\* One iteration of the while loop of derive_prime_implicants.
GroupStep ==
    /\ pc = "group"
    /\ LET g == group_once(current)
       IN  IF g[1] = <<>>
           THEN /\ prime_implicants' = prime_implicants \cup SeqToSet(g[2]) \cup SeqToSet(current)
                /\ current' = current
                /\ pc' = "reduce"
           ELSE /\ prime_implicants' = prime_implicants \cup SeqToSet(g[2])
                /\ current' = g[1]
                /\ pc' = "group"
    /\ UNCHANGED <<run_locals, direct_call, parse_locals, manager, args, todo, onset_bits, union_bits, off_bits, pis, table_locals, epis,
                   greedy_locals, results>>

\* Variant of Reduce that returns the accumulated primes together with the
\* input terms, without the elimination of lines 61-65.
ReduceKeepsTerms ==
    /\ pc = "reduce"
    /\ pis' = SortedSet(prime_implicants \cup SeqToSet(union_bits))
    /\ pc' = "filter"
    /\ UNCHANGED <<run_locals, direct_call, parse_locals, manager, args, todo, onset_bits, union_bits, off_bits, derive_locals, table_locals,
                   epis, greedy_locals, results>>

\* derive_prime_implicants lines 60-66 and its return into pis.
Reduce ==
    /\ pc = "reduce"
    /\ pis' = RemoveRedundant(prime_implicants)
    /\ pc' = "filter"
    /\ UNCHANGED <<run_locals, direct_call, parse_locals, manager, args, todo, onset_bits, union_bits, off_bits, derive_locals, table_locals,
                   epis, greedy_locals, results>>

\* select_cover_for_one_output lines 86-95: the off-set filter.
OffFilter ==
    /\ pc = "filter"
    /\ off_bits' = SeqToSet(inputs_bits) \ SeqToSet(union_bits)
    /\ pis' = FilterOff(pis, SeqToSet(inputs_bits) \ SeqToSet(union_bits))
    /\ pc' = "tables"
    /\ UNCHANGED <<run_locals, direct_call, parse_locals, manager, args, todo, onset_bits, union_bits, derive_locals, table_locals, epis,
                   greedy_locals, results>>

\* select_cover_for_one_output lines 98-113: on_indices, covers, minterm_to_pis.
BuildTables ==
    /\ pc = "tables"
    /\ on_indices' = {IdxByBits(inputs_bits)[b] : b \in SeqToSet(onset_bits)}
    /\ covers' = BuildCovers(pis, inputs_bits, onset_bits)
    /\ minterm_to_pis' = BuildMintermToPis(covers', on_indices')
    /\ pc' = "epis"
    /\ UNCHANGED <<run_locals, direct_call, parse_locals, manager, args, todo, onset_bits, union_bits, off_bits, derive_locals, pis, epis,
                   greedy_locals, results>>

\* select_cover_for_one_output line 115.
PickEpis ==
    /\ pc = "epis"
    /\ epis' = pick_epis(minterm_to_pis)[1]
    /\ pc' = "greedy"
    /\ UNCHANGED <<run_locals, direct_call, parse_locals, manager, args, todo, onset_bits, union_bits, off_bits, derive_locals, pis,
                   table_locals, greedy_locals, results>>

\* greedy_complete_cover lines 35-39 with pis, covers, already_selected = epis,
\* all_on_indices = on_indices.
GreedyInit ==
    /\ pc = "greedy"
    /\ LET e == GreedyEntry(pis, covers, epis, on_indices)
       IN  /\ selected' = e[1]
           /\ uncovered' = e[2]
           /\ remaining' = e[3]
    /\ pc' = "loop"
    /\ UNCHANGED <<run_locals, direct_call, parse_locals, manager, args, todo, onset_bits, union_bits, off_bits, derive_locals, pis,
                   table_locals, epis, results>>

\* One test of the while condition of greedy_complete_cover and, when it
\* holds, one iteration of the body (lines 40-50); the return on exit.
GreedyStep ==
    /\ pc = "loop"
    /\ IF GreedyStops(uncovered, remaining, covers)
       THEN /\ pc' = "render"
            /\ UNCHANGED greedy_locals
       ELSE LET b == GreedyBody(selected, uncovered, remaining, covers)
            IN  /\ selected' = b[1]
                /\ uncovered' = b[2]
                /\ remaining' = b[3]
                /\ pc' = "loop"
    /\ UNCHANGED <<run_locals, direct_call, parse_locals, manager, args, todo, onset_bits, union_bits, off_bits, derive_locals, pis,
                   table_locals, epis, results>>

\* select_cover_for_one_output lines 120-123.
Render ==
    /\ pc = "render"
    /\ selected_pis' = SortedSet(selected)
    /\ sop' = build_sum_of_products(selected_pis', var_names)
    /\ cubes' = cubes_for_espresso(selected_pis', Len(outputs_trits[1]), which_output)
    /\ pc' = "done"
    /\ UNCHANGED <<run_locals, direct_call, parse_locals, manager, args, todo, onset_bits, union_bits, off_bits, derive_locals, pis,
                   table_locals, epis, greedy_locals>>

Next ==
    \/ Start
    \/ GroupStep
    \/ Reduce
    \/ OffFilter
    \/ BuildTables
    \/ PickEpis
    \/ GreedyInit
    \/ GreedyStep
    \/ Render

Spec == Init /\ [][Next]_vars

\* run_from_sum_file up to the call of select_cover_for_one_output for the
\* completely specified functions of WideN inputs with WideOn on-set indices.
InitWide ==
    /\ pc = "start"
    /\ \E on_set \in {S \in SUBSET (0..(Pow2(WideN) - 1)) : Cardinality(S) = WideOn} :
          LET spec == [name \in {"f"} |-> <<on_set, {}>>]
          IN  /\ SpecPassesValidation(WideN, spec)
              /\ inputs_bits = gen_all_input_combinations(WideN)
              /\ outputs_trits = BuildRows(WideN, <<"f">>, spec)
              /\ var_names = DefaultNames(WideN)
              /\ RunOfF(WideN, spec)
    /\ which_output = 0
    /\ Fresh
    /\ NoDirectCall
    /\ NoParse
    /\ NoManager

SpecWide == InitWide /\ [][Next]_vars

\* ---------------------------------------------- iteration order left open
\* The same call with every for loop over a set or a dict taking its entries
\* in an arbitrary order, one entry per step.

\* Body of the loop of lines 110-113 for one item of covers.
MintermAdd(table, pi, covered_set) ==
    [i \in DOMAIN table |-> IF i \in covered_set THEN table[i] \cup {pi} ELSE table[i]]

\* Variant of EpisAdd that assigns instead of adding
\* (epis = {next(iter(cand))}).
EpisAssign(e, cand) == IF Cardinality(cand) = 1 THEN cand ELSE e

\* Body of the first loop of pick_epis for one item of the table.
EpisAdd(e, cand) == IF Cardinality(cand) = 1 THEN e \cup cand ELSE e

\* select_cover_for_one_output lines 98-109: on_indices, covers and the
\* empty minterm_to_pis table.
TablesBegin ==
    /\ pc = "tables"
    /\ on_indices' = {IdxByBits(inputs_bits)[b] : b \in SeqToSet(onset_bits)}
    /\ covers' = BuildCovers(pis, inputs_bits, onset_bits)
    /\ minterm_to_pis' = [i \in on_indices' |-> {}]
    /\ todo' = DOMAIN covers'
    /\ pc' = "tables_loop"
    /\ UNCHANGED <<run_locals, direct_call, parse_locals, manager, args, onset_bits, union_bits, off_bits, derive_locals, pis, epis,
                   greedy_locals, results>>

\* One item of "for pi, covered_set in covers.items()" (lines 110-113).
TablesItem ==
    /\ pc = "tables_loop"
    /\ \E pi \in todo :
          /\ minterm_to_pis' = MintermAdd(minterm_to_pis, pi, covers[pi])
          /\ todo' = todo \ {pi}
    /\ UNCHANGED <<pc, run_locals, direct_call, parse_locals, manager, args, onset_bits, union_bits, off_bits, derive_locals, pis,
                   on_indices, covers, epis, greedy_locals, results>>

\* End of that loop and entry of pick_epis (lines 17-18).
EpisBegin ==
    /\ pc = "tables_loop" /\ todo = {}
    /\ epis' = {}
    /\ todo' = DOMAIN minterm_to_pis
    /\ pc' = "epis_loop"
    /\ UNCHANGED <<run_locals, direct_call, parse_locals, manager, args, onset_bits, union_bits, off_bits, derive_locals, pis,
                   table_locals, greedy_locals, results>>

\* One item of the first "for m, cand in minterm_to_pis.items()" of pick_epis.
EpisItem ==
    /\ pc = "epis_loop"
    /\ \E m \in todo :
          /\ epis' = EpisAdd(epis, minterm_to_pis[m])
          /\ todo' = todo \ {m}
    /\ UNCHANGED <<pc, run_locals, direct_call, parse_locals, manager, args, onset_bits, union_bits, off_bits, derive_locals, pis,
                   table_locals, greedy_locals, results>>

\* Return of pick_epis (its covered set is dropped by the caller) and
\* greedy_complete_cover lines 35-36.
GreedyBegin ==
    /\ pc = "epis_loop" /\ todo = {}
    /\ selected' = epis
    /\ uncovered' = on_indices
    /\ remaining' = <<>>
    /\ todo' = epis
    /\ pc' = "greedy_loop"
    /\ UNCHANGED <<run_locals, direct_call, parse_locals, manager, args, onset_bits, union_bits, off_bits, derive_locals, pis,
                   table_locals, epis, results>>

\* One item of "for pi in selected" (lines 37-38).
GreedySubtract ==
    /\ pc = "greedy_loop"
    /\ \E pi \in todo :
          /\ uncovered' = uncovered \ CoversGet(covers, pi)
          /\ todo' = todo \ {pi}
    /\ UNCHANGED <<pc, run_locals, direct_call, parse_locals, manager, args, onset_bits, union_bits, off_bits, derive_locals, pis,
                   table_locals, epis, selected, remaining, results>>

\* greedy_complete_cover line 39.
GreedyRemaining ==
    /\ pc = "greedy_loop" /\ todo = {}
    /\ remaining' = SelectSeq(pis, LAMBDA pi : pi \notin selected)
    /\ pc' = "loop"
    /\ UNCHANGED <<run_locals, direct_call, parse_locals, manager, args, todo, onset_bits, union_bits, off_bits, derive_locals, pis,
                   table_locals, epis, selected, uncovered, results>>

NextOrder ==
    \/ Start
    \/ GroupStep
    \/ Reduce
    \/ OffFilter
    \/ TablesBegin
    \/ TablesItem
    \/ EpisBegin
    \/ EpisItem
    \/ GreedyBegin
    \/ GreedySubtract
    \/ GreedyRemaining
    \/ GreedyStep
    \/ Render

SpecOrder == Init /\ [][NextOrder]_vars

\* A direct call greedy_complete_cover(pis, covers, already_selected,
\* all_on_indices) with arbitrary arguments: pis any list (duplicates
\* allowed) over GreedyCubes, covers any dict from some of these cubes to
\* index sets, already_selected any set of them, all_on_indices any index set.
GreedyCubes == {<<"0", "1">>, <<"0", "-">>}

ListsUpTo(S, k) == UNION {[1..len -> S] : len \in 0..k}

PartialMaps(D, R) == UNION {[dom -> R] : dom \in SUBSET D}

InitGreedy ==
    /\ pc = "greedy"
    /\ inputs_bits = <<>> /\ outputs_trits = <<>> /\ which_output = 0
    /\ var_names = <<>>
    /\ onset_bits = <<>> /\ union_bits = <<>> /\ off_bits = {}
    /\ current = <<>> /\ prime_implicants = {}
    /\ minterm_to_pis = <<>>
    /\ pis \in ListsUpTo(GreedyCubes, MaxPis)
    /\ covers \in PartialMaps(GreedyCubes, SUBSET (0..MaxIdx))
    /\ epis \in SUBSET GreedyCubes
    /\ on_indices \in SUBSET (0..MaxIdx)
    /\ selected = {} /\ uncovered = {} /\ remaining = <<>>
    /\ todo = {}
    /\ selected_pis = <<>> /\ sop = "" /\ cubes = <<>>
    /\ NoRun
    /\ NoDirectCall
    /\ NoParse
    /\ NoManager

NextGreedy ==
    \/ GreedyInit
    \/ GreedyStep

SpecGreedy == InitGreedy /\ [][NextGreedy]_vars

\* ------------------------------------------------------- run_from_sum_file
\* Names of the outputs of a parsed spec, and the orders in which a file
\* can list some of them (the key order of the dict the parser returns).
OutputNames == {"f", "g"}

NameOrders ==
    {order \in UNION {[1..len -> OutputNames] : len \in 1..Cardinality(OutputNames)} :
        \A i, j \in 1..Len(order) : i # j => order[i] # order[j]}

\* The locals of a call of select_cover_for_one_output that starts.
FreshCall ==
    /\ onset_bits' = <<>> /\ union_bits' = <<>> /\ off_bits' = {}
    /\ current' = <<>> /\ prime_implicants' = {} /\ pis' = <<>>
    /\ on_indices' = {} /\ covers' = <<>> /\ minterm_to_pis' = <<>>
    /\ epis' = {}
    /\ selected' = {} /\ uncovered' = {} /\ remaining' = <<>>
    /\ todo' = {}
    /\ selected_pis' = <<>> /\ sop' = "" /\ cubes' = <<>>

call_locals == <<onset_bits, union_bits, off_bits, derive_locals, pis, table_locals,
                 epis, greedy_locals, todo, results>>

\* run_from_sum_file lines 48-53 and 67: the table is built (or the
\* ValueError of the builder leaves the function), names default to x1..xN.
BuildOutputs ==
    /\ pc = "build"
    /\ LET r == build_outputs_from_minterm_indices(n_inputs, spec_order, outputs_spec)
       IN  IF r[1] # None
           THEN /\ error' = r[1]
                /\ pc' = "raised"
                /\ UNCHANGED <<inputs_bits, outputs_trits, output_names, var_names>>
           ELSE /\ inputs_bits' = r[2][1]
                /\ outputs_trits' = r[2][2]
                /\ output_names' = r[2][3]
                /\ var_names' = DefaultNames(n_inputs)
                /\ pc' = "for"
                /\ UNCHANGED error
    /\ UNCHANGED <<n_inputs, outputs_spec, spec_order, visited, all_cubes, pla_text,
                   which_output, direct_call, parse_locals, manager, call_locals>>

\* The for statement of line 68 calls select_cover_for_one_output for
\* column k, or leaves the loop for line 83 when no column is left.
CallForColumn(k) ==
    /\ which_output' = k
    /\ FreshCall
    /\ pc' = "start"

ForNext ==
    /\ pc = "for"
    /\ IF Len(visited) < Len(output_names)
       THEN CallForColumn(Len(visited))
       ELSE pc' = "pla" /\ UNCHANGED <<which_output, call_locals>>
    /\ UNCHANGED <<inputs_bits, outputs_trits, var_names, run_locals, direct_call, parse_locals, manager>>

\* The same statement with the columns taken in any order.
ForAny ==
    /\ pc = "for"
    /\ IF Len(visited) < Len(output_names)
       THEN \E k \in (0..(Len(output_names) - 1)) \ SeqToSet(visited) : CallForColumn(k)
       ELSE pc' = "pla" /\ UNCHANGED <<which_output, call_locals>>
    /\ UNCHANGED <<inputs_bits, outputs_trits, var_names, run_locals, direct_call, parse_locals, manager>>

\* Lines 69-80 after the call has returned: all_cubes.extend(cubes).
Collect ==
    /\ pc = "done"
    /\ all_cubes' = all_cubes \o cubes
    /\ visited' = Append(visited, which_output)
    /\ pc' = "for"
    /\ UNCHANGED <<args, n_inputs, outputs_spec, spec_order, output_names, error,
                   pla_text, direct_call, parse_locals, manager, call_locals>>

\* sep.join(parts)
JoinWith(sep, parts) ==
    LET J[i \in 0..Len(parts)] ==
            IF i = 0 THEN ""
            ELSE IF i = 1 THEN parts[1]
            ELSE J[i - 1] \o sep \o parts[i]
    IN  J[Len(parts)]

\* build_full_pla; a row of all_cubes is written as the str it is.
build_full_pla(inputs, outputs, rows, input_names, out_names) ==
    LET lines == << ".i " \o ToString(Len(inputs[1])),
                    ".o " \o ToString(Len(outputs[1])),
                    ".ilb " \o JoinWith(" ", input_names),
                    ".ob " \o JoinWith(" ", out_names) >>
                 \o [r \in 1..Len(rows) |-> JoinAll(rows[r])]
                 \o << ".e" >>
    IN  JoinWith("\n", lines)

\* run_from_sum_file lines 83-87.
BuildPla ==
    /\ pc = "pla"
    /\ pla_text' = build_full_pla(inputs_bits, outputs_trits, all_cubes, var_names, output_names)
    /\ pc' = "returned"
    /\ UNCHANGED <<args, n_inputs, outputs_spec, spec_order, output_names, error,
                   visited, all_cubes, direct_call, parse_locals, manager, call_locals>>

\* A run about to build its table: nothing computed yet.
BeforeBuild ==
    /\ pc = "build"
    /\ inputs_bits = <<>> /\ outputs_trits = <<>> /\ which_output = 0
    /\ var_names = <<>>
    /\ output_names = <<>> /\ error = None /\ visited = <<>>
    /\ all_cubes = <<>> /\ pla_text = ""
    /\ Fresh
    /\ NoDirectCall
    /\ NoParse
    /\ NoManager

\* run_from_sum_file on any parsed spec: one or two outputs in either dict
\* order, each on-set and dc-set any set of indices from -1 to 2^N.
InitRun ==
    /\ n_inputs \in 0..RunN
    /\ spec_order \in NameOrders
    /\ outputs_spec \in [SeqToSet(spec_order) ->
                            (SUBSET ((0 - 1)..Pow2(n_inputs))) \X (SUBSET ((0 - 1)..Pow2(n_inputs)))]
    /\ BeforeBuild

NextRun ==
    \/ BuildOutputs
    \/ ForNext
    \/ Start
    \/ GroupStep
    \/ Reduce
    \/ OffFilter
    \/ BuildTables
    \/ PickEpis
    \/ GreedyInit
    \/ GreedyStep
    \/ Render
    \/ Collect
    \/ BuildPla

SpecRun == InitRun /\ [][NextRun]_vars

\* run_from_sum_file on the specs that pass validation, its columns
\* minimized in any order.
InitMulti ==
    /\ n_inputs \in 1..MultiN
    /\ spec_order \in NameOrders
    /\ outputs_spec \in [SeqToSet(spec_order) ->
                            (SUBSET (0..(Pow2(n_inputs) - 1))) \X (SUBSET (0..(Pow2(n_inputs) - 1)))]
    /\ SpecPassesValidation(n_inputs, outputs_spec)
    /\ BeforeBuild

NextMulti ==
    \/ BuildOutputs
    \/ ForAny
    \/ Start
    \/ GroupStep
    \/ Reduce
    \/ OffFilter
    \/ BuildTables
    \/ PickEpis
    \/ GreedyInit
    \/ GreedyStep
    \/ Render
    \/ Collect
    \/ BuildPla

SpecMulti == InitMulti /\ [][NextMulti]_vars

\* ------------------------------------------------------------ direct calls
\* One call of a function of the implicant algebra or of the output
\* assembler on arguments of its own, outside any run.
CubesOfLen(n) == [1..n -> {"-", "0", "1"}]
AssignmentsOfLen(n) == [1..n -> {"0", "1"}]

\* A var_names argument other than the default.
GivenNames(n) == [i \in 1..n |-> "in" \o ToString(i - 1)]

\* No call of select_cover_for_one_output is in progress.
NoCall ==
    /\ inputs_bits = <<>> /\ outputs_trits = <<>> /\ which_output = 0
    /\ var_names = <<>>
    /\ Fresh

InitPure ==
    /\ pc = "call"
    /\ \/ /\ fn \in {"combine_if_one_bit_diff", "implicant_covers_implicant"}
          /\ fn_args \in UNION {CubesOfLen(n) \X CubesOfLen(n) : n \in 1..PureLen}
       \/ /\ fn = "implicant_covers_input"
          /\ fn_args \in UNION {CubesOfLen(n) \X AssignmentsOfLen(n) : n \in 1..PureLen}
       \/ /\ fn = "implicant_to_product_term"
          /\ fn_args \in UNION {CubesOfLen(n) \X {None, GivenNames(n)} : n \in 0..PureLen}
       \/ /\ fn = "build_sum_of_products"
          /\ fn_args \in ListsUpTo(CubesOfLen(ListCube), PureList) \X {None, GivenNames(ListCube)}
       \/ /\ fn = "cubes_for_espresso"
          /\ fn_args \in {<<sel, m, k>> : sel \in ListsUpTo(CubesOfLen(ListCube), PureList),
                                          m \in 1..PureOutputs, k \in 0..(PureOutputs - 1)}
          /\ fn_args[3] < fn_args[2]
    /\ fn_result = None
    /\ NoCall
    /\ NoRun
    /\ NoParse
    /\ NoManager

\* The call returns with the value v.
Return(v) ==
    /\ fn_result' = v
    /\ pc' = "return"
    /\ UNCHANGED <<fn, fn_args, parse_locals, manager, run_locals, args, call_locals>>

CallCombine ==
    /\ pc = "call" /\ fn = "combine_if_one_bit_diff"
    /\ Return(combine_if_one_bit_diff(fn_args[1], fn_args[2]))

CallCoversInput ==
    /\ pc = "call" /\ fn = "implicant_covers_input"
    /\ Return(implicant_covers_input(fn_args[1], fn_args[2]))

CallCoversImplicant ==
    /\ pc = "call" /\ fn = "implicant_covers_implicant"
    /\ Return(implicant_covers_implicant(fn_args[1], fn_args[2]))

CallProductTerm ==
    /\ pc = "call" /\ fn = "implicant_to_product_term"
    /\ Return(implicant_to_product_term(fn_args[1], fn_args[2]))

CallSumOfProducts ==
    /\ pc = "call" /\ fn = "build_sum_of_products"
    /\ Return(build_sum_of_products(fn_args[1], fn_args[2]))

CallCubes ==
    /\ pc = "call" /\ fn = "cubes_for_espresso"
    /\ Return(cubes_for_espresso(fn_args[1], fn_args[2], fn_args[3]))

NextPure ==
    \/ CallCombine
    \/ CallCoversInput
    \/ CallCoversImplicant
    \/ CallProductTerm
    \/ CallSumOfProducts
    \/ CallCubes

SpecPure == InitPure /\ [][NextPure]_vars

\* ------------------------------------------------- derive_prime_implicants
\* A direct call derive_prime_implicants(minterms) on any list of up to
\* DeriveLen assignments of 1..DeriveN bits, in any order, duplicates allowed.
DeriveN == 2
DeriveLen == 4

InitDerive ==
    /\ pc = "call"
    /\ fn = "derive_prime_implicants"
    /\ fn_args \in {<<minterms>> :
                       minterms \in UNION {ListsUpTo(AssignmentsOfLen(n), DeriveLen) : n \in 1..DeriveN}}
    /\ fn_result = None
    /\ NoCall
    /\ NoRun
    /\ NoParse
    /\ NoManager

\* derive_prime_implicants lines 51-52.
CallDerive ==
    /\ pc = "call" /\ fn = "derive_prime_implicants"
    /\ current' = SortedSet(SeqToSet(fn_args[1]))
    /\ prime_implicants' = {}
    /\ pc' = "group"
    /\ UNCHANGED <<run_locals, direct_call, parse_locals, manager, args, todo, onset_bits, union_bits,
                   off_bits, pis, table_locals, epis, greedy_locals, results>>

\* derive_prime_implicants line 66: the list is returned to the caller.
ReturnDerive ==
    /\ pc = "filter" /\ fn = "derive_prime_implicants"
    /\ fn_result' = pis
    /\ pc' = "return"
    /\ UNCHANGED <<fn, fn_args, parse_locals, manager, run_locals, args, call_locals>>

NextDerive ==
    \/ CallDerive
    \/ GroupStep
    \/ Reduce
    \/ ReturnDerive

SpecDerive == InitDerive /\ [][NextDerive]_vars

\* The call run to its end: sequential code, so a step that is possible is
\* eventually taken.
SpecDeriveFair == SpecDerive /\ WF_vars(NextDerive)

\* ------------------------------------------------------------ properties
\* The input as the claims name it.
NumInputs == Len(inputs_bits[1])
RowIdx == 0..(Len(inputs_bits) - 1)
OnSet == {i \in RowIdx : outputs_trits[i + 1][which_output + 1] = "1"}
DcSet == {i \in RowIdx : outputs_trits[i + 1][which_output + 1] = "-"}
OffSet == {i \in RowIdx : outputs_trits[i + 1][which_output + 1] = "0"}
Bits(i) == inputs_bits[i + 1]

\* Positions of select_cover_for_one_output after derive_prime_implicants
\* has returned, and after the off-set filter.
AfterDerive == pc \in {"filter", "tables", "epis", "greedy", "loop", "render", "done"}
AfterFilter == pc \in {"tables", "epis", "greedy", "loop", "render", "done"}

\* The assignments a cube stands for: those that agree with each of its
\* fixed positions.
AllCubes == [1..NumInputs -> {"-", "0", "1"}]
CubeIdx(c) == {i \in RowIdx : \A k \in 1..NumInputs : c[k] \in {"-", Bits(i)[k]}}
HasDash(c) == \E k \in 1..Len(c) : c[k] = "-"
NoDuplicates(s) == Cardinality(SeqToSet(s)) = Len(s)

\* C1 (soundness): once derive_prime_implicants has returned, no implicant
\* of the prime-implicant list pis (before and after the off-set filter), of
\* the selection in progress or of the returned selected cover covers an
\* off-set assignment of the output.
C1_Soundness ==
    AfterDerive =>
        \A pi \in SeqToSet(pis) \cup selected \cup SeqToSet(selected_pis) :
            \A x \in OffSet : ~ implicant_covers_input(pi, Bits(x))

C1_Witness ==
    /\ pc = "done"
    /\ OffSet # {} /\ DcSet # {}
    /\ \E pi \in SeqToSet(selected_pis) : HasDash(pi)

\* C2 (coverage completeness): on return, every on-set assignment with a
\* non-empty coverage-table entry is covered by a selected implicant or is in
\* the returned uncovered set.
C2_CoverageComplete ==
    pc = "done" =>
        \A m \in OnSet :
            minterm_to_pis[m] # {} =>
                \/ \E pi \in SeqToSet(selected_pis) : implicant_covers_input(pi, Bits(m))
                \/ m \in uncovered

C2_Witness ==
    /\ pc = "done"
    /\ Cardinality(OnSet) >= 3
    /\ \A m \in OnSet : minterm_to_pis[m] # {}
    /\ selected # epis

\* C3 (essential-implicant inclusion): on return, if exactly one implicant
\* of the candidate prime-implicant list covers an on-set assignment, that
\* implicant is in the returned selected cover.
C3_EssentialIncluded ==
    pc = "done" =>
        \A m \in OnSet :
            LET cand == {pi \in SeqToSet(pis) : implicant_covers_input(pi, Bits(m))}
            IN  Cardinality(cand) = 1 => cand \subseteq SeqToSet(selected_pis)

C3_Witness ==
    /\ pc = "done"
    /\ \E m \in OnSet :
          /\ Cardinality({pi \in SeqToSet(pis) : implicant_covers_input(pi, Bits(m))}) = 1
    /\ \E m \in OnSet :
          /\ Cardinality({pi \in SeqToSet(pis) : implicant_covers_input(pi, Bits(m))}) > 1

\* The cubes that lie inside the care set (on-set united with dc-set) and
\* those of them not properly contained in another one.
CareSet == OnSet \cup DcSet
CareCubes == {c \in AllCubes : CubeIdx(c) \subseteq CareSet}
MaximalCubes ==
    {c \in CareCubes : ~ \E d \in CareCubes :
        CubeIdx(c) \subseteq CubeIdx(d) /\ CubeIdx(c) # CubeIdx(d)}

\* C4 (completeness and maximality of the prime set): the list returned by
\* derive_prime_implicants holds exactly the maximal cubes contained in the
\* set of terms it was given, each once.
C4_ExactlyMaximalCubes ==
    pc = "filter" => SeqToSet(pis) = MaximalCubes /\ NoDuplicates(pis)

C4_Witness ==
    /\ pc = "filter"
    /\ Len(pis) >= 3
    /\ \E a \in SeqToSet(pis), b \in SeqToSet(pis) : Count(a, "-") # Count(b, "-")

\* C5 (primality): in the list returned by derive_prime_implicants,
\* implicant_covers_implicant(a, b) is false for every two implicants at
\* different positions.
C5_Primality ==
    pc = "filter" =>
        \A i \in 1..Len(pis), j \in 1..Len(pis) :
            i # j => ~ implicant_covers_implicant(pis[i], pis[j])

C5_Witness ==
    /\ pc = "filter"
    /\ Len(pis) >= 2
    /\ Len(current) < Cardinality(prime_implicants)

\* C7 (well-formed input leaves nothing uncovered): on return the uncovered
\* set is empty and every on-set assignment is covered by a selected
\* implicant.
C7_NothingUncovered ==
    pc = "done" =>
        /\ uncovered = {}
        /\ \A m \in OnSet :
              \E pi \in SeqToSet(selected_pis) : implicant_covers_input(pi, Bits(m))

C7_Witness ==
    /\ pc = "done"
    /\ OnSet # {}
    /\ selected # epis
    /\ epis # {}

\* C8 (uncovered assignments are reported): when greedy_complete_cover
\* returns, for arbitrary arguments, the uncovered set is exactly
\* all_on_indices minus the union of covers.get(pi, set()) over the returned
\* selection, and the selection contains already_selected.
C8_UncoveredReported ==
    pc = "render" =>
        /\ uncovered = on_indices \ UNION {CoversGet(covers, pi) : pi \in selected}
        /\ epis \subseteq selected

C8_Witness ==
    /\ pc = "render"
    /\ uncovered # {}
    /\ selected # epis
    /\ \E pi \in selected : pi \notin DOMAIN covers

\* C9 as claimed (empty on-set, for any dc-set): empty prime-implicant list,
\* empty selected cover, empty uncovered set, no cube rows and the SOP "0".
C9_EmptyOnSetAsClaimed ==
    (pc = "done" /\ OnSet = {}) =>
        /\ pis = <<>>
        /\ selected_pis = <<>> /\ uncovered = {} /\ cubes = <<>> /\ sop = "0"

\* C9 (empty on-set, amended): for an empty on-set the selected cover is
\* empty, the uncovered set is empty, there are no cube rows and the SOP is
\* "0"; the prime-implicant list is empty exactly when the dc-set is empty
\* too, and otherwise holds the maximal cubes of the dc-set.
C9_EmptyOnSet ==
    (pc = "done" /\ OnSet = {}) =>
        /\ selected_pis = <<>> /\ uncovered = {} /\ cubes = <<>> /\ sop = "0"
        /\ (pis = <<>>) <=> (DcSet = {})
        /\ SeqToSet(pis) = MaximalCubes

C9_Witness ==
    /\ pc = "done"
    /\ OnSet = {}
    /\ DcSet # {}
    /\ Len(pis) >= 2

\* The selected implicants p such that every on-set assignment p covers is
\* covered by another selected implicant.
Redundant(sel) ==
    {p \in sel : \A m \in OnSet :
        implicant_covers_input(p, Bits(m)) =>
            \E q \in sel \ {p} : implicant_covers_input(q, Bits(m))}

\* C6 as claimed (irredundant cover): on return, removing any single selected
\* implicant leaves an on-set assignment that no remaining selected implicant
\* covers.
C6_IrredundantAsClaimed ==
    pc = "done" => Redundant(SeqToSet(selected_pis)) = {}

\* A step of the greedy loop that selects an implicant selects one that
\* covers an on-set assignment no implicant selected before it covers.
PickAddsCoverage ==
    (pc = "loop" /\ selected' # selected) =>
        \E pi \in selected' \ selected : \E m \in OnSet :
            /\ implicant_covers_input(pi, Bits(m))
            /\ ~ \E q \in selected : implicant_covers_input(q, Bits(m))

\* Each essential implicant is the only selected implicant covering some
\* on-set assignment.
EssentialsNeeded ==
    pc = "done" => epis \cap Redundant(SeqToSet(selected_pis)) = {}

\* C6 (amended): the cover is irredundant in selection order only: no
\* essential implicant can be removed, and every greedy pick covers, when it
\* is picked, an on-set assignment that no earlier selected implicant covers;
\* a later pick may still make an earlier greedy pick removable.
C6_IrredundantWhenPicked ==
    [][PickAddsCoverage /\ EssentialsNeeded']_vars

C6_Witness ==
    /\ pc = "done"
    /\ Redundant(SeqToSet(selected_pis)) # {}
    /\ Len(selected_pis) >= 4

\* C10 (determinism): whatever order the loops over the covers dict, the
\* minterm table and the selected set take their entries in, the call returns
\* the one result that its arguments determine (ordered implicant list,
\* uncovered set, SOP string, cube rows), so two runs on identical arguments
\* return identical results.
C10_Deterministic ==
    pc = "done" =>
        <<selected_pis, uncovered, sop, cubes>> =
            select_cover_for_one_output(inputs_bits, outputs_trits, which_output, var_names)

C10_Witness ==
    /\ pc = "done"
    /\ Cardinality(epis) >= 2
    /\ selected # epis
    /\ Cardinality(DOMAIN minterm_to_pis) >= 4

\* The truth table with every column but column k (0-based) set to '0'.
OnlyColumn(outputs, k) ==
    [r \in 1..Len(outputs) |->
        [j \in 1..Len(outputs[r]) |-> IF j = k + 1 THEN outputs[r][j] ELSE "0"]]

\* C11 (output independence): whichever columns were minimized before and
\* whatever the other columns of the table contain, the call for column k
\* returns the selected implicants, uncovered set, SOP and cube rows that it
\* returns on the table of the same shape whose other columns are all '0';
\* so two tables over the same inputs with the same number of columns that
\* agree on column k give the same result for column k, in any column order.
C11_OutputIndependence ==
    pc = "done" =>
        <<selected_pis, uncovered, sop, cubes>> =
            select_cover_for_one_output(inputs_bits,
                OnlyColumn(outputs_trits, which_output), which_output, var_names)

C11_Witness ==
    /\ pc = "done"
    /\ Len(output_names) = 2
    /\ which_output = 0
    /\ visited = <<1>>
    /\ Len(selected_pis) >= 2
    /\ \E r \in 1..Len(outputs_trits) : outputs_trits[r][2] = "1"
    /\ \E r \in 1..Len(outputs_trits) : outputs_trits[r][2] = "-"

\* The product term of a cube, built from the first position on: the name
\* for '1', the name and ' for '0', nothing for '-'.
RECURSIVE LiteralsFrom(_, _, _)
LiteralsFrom(c, names, i) ==
    IF i > Len(c) THEN ""
    ELSE (CASE c[i] = "1" -> names[i]
            [] c[i] = "0" -> names[i] \o "'"
            [] c[i] = "-" -> "") \o LiteralsFrom(c, names, i + 1)

ProductTerm(c, names) ==
    IF \A i \in 1..Len(c) : c[i] = "-" THEN "1" ELSE LiteralsFrom(c, names, 1)

XNames(n) == [i \in 1..n |-> "x" \o ToString(i)]

\* C12 (single-cube functions): when the on-set is not empty and on-set
\* U dc-set is exactly the set of assignments of one cube c, the call returns
\* with prime list [c], selected cover [c], nothing uncovered and the product
\* term of c as SOP ("1" when c has no fixed position; on-set {0}, dc-set {1},
\* N = 2 gives ["0-"] and x1').
C12_SingleCube ==
    (pc = "done" /\ OnSet # {}) =>
        /\ \A c \in AllCubes :
              CubeIdx(c) = CareSet =>
                 /\ pis = <<c>>
                 /\ selected_pis = <<c>>
                 /\ uncovered = {}
                 /\ sop = ProductTerm(c, XNames(NumInputs))
        /\ (NumInputs = 2 /\ OnSet = {0} /\ DcSet = {1}) =>
              /\ selected_pis = << <<"0", "-">> >>
              /\ sop = "x1'"
        /\ CareSet = RowIdx => sop = "1"

C12_Witness ==
    /\ pc = "done"
    /\ NumInputs = 3
    /\ OnSet = {5}
    /\ DcSet = {1}
    /\ selected_pis = << <<"-", "0", "1">> >>
    /\ sop = "x2'x3"

\* C13 (don't-cares never force coverage): at every point of a call each
\* selected implicant, and on return each implicant of the returned cover,
\* covers an on-set assignment; the keys of minterm_to_pis, the index sets of
\* covers, on_indices and the uncovered set hold no dc-set index.
C13_DontCaresNeverForce ==
    /\ \A pi \in selected : CubeIdx(pi) \cap OnSet # {}
    /\ \A r \in 1..Len(selected_pis) : CubeIdx(selected_pis[r]) \cap OnSet # {}
    /\ (DOMAIN minterm_to_pis) \cap DcSet = {}
    /\ \A pi \in DOMAIN covers : covers[pi] \cap DcSet = {}
    /\ on_indices \cap DcSet = {}
    /\ uncovered \cap DcSet = {}

C13_Witness ==
    /\ pc = "done"
    /\ selected_pis # <<>>
    /\ \E r \in 1..Len(pis) : CubeIdx(pis[r]) \subseteq DcSet
    /\ \E r \in 1..Len(selected_pis) : CubeIdx(selected_pis[r]) \cap DcSet # {}
    /\ Cardinality(DOMAIN minterm_to_pis) >= 2

\* A direct call of function f has returned.
Returned(f) == pc = "return" /\ fn = f

DiffPositions(a, b) == {i \in 1..Len(a) : a[i] # b[i]}

\* C14 (combine): for cubes a, b of equal length combine_if_one_bit_diff
\* returns a cube iff a and b differ at exactly one position and hold '0' and
\* '1' there, and that cube is a with '-' at the position; in every other
\* case (no difference, two or more, '-' against a fixed bit) it returns None.
C14_CombineRule ==
    Returned("combine_if_one_bit_diff") =>
        LET a == fn_args[1]
            b == fn_args[2]
            D == DiffPositions(a, b)
        IN  IF Cardinality(D) = 1 /\ \A i \in D : {a[i], b[i]} = {"0", "1"}
            THEN fn_result = [i \in 1..Len(a) |-> IF i \in D THEN "-" ELSE a[i]]
            ELSE fn_result = None

C14_Witness ==
    /\ Returned("combine_if_one_bit_diff")
    /\ fn_args = << <<"-", "0", "1">>, <<"-", "1", "1">> >>
    /\ fn_result = <<"-", "-", "1">>

\* C15 (containment): implicant_covers_input(c, x) is true iff each fixed
\* position of c holds the bit of x, and for cubes a, b of equal length
\* implicant_covers_implicant(a, b) is true iff every assignment that b
\* covers is covered by a.
C15_CoversIffSubset ==
    /\ Returned("implicant_covers_input") =>
          LET c == fn_args[1]
              x == fn_args[2]
          IN  fn_result = (\A i \in 1..Len(c) : c[i] \in {"0", "1"} => c[i] = x[i])
    /\ Returned("implicant_covers_implicant") =>
          LET a == fn_args[1]
              b == fn_args[2]
          IN  fn_result = (\A x \in AssignmentsOfLen(Len(b)) :
                              implicant_covers_input(b, x) => implicant_covers_input(a, x))

C15_Witness ==
    /\ Returned("implicant_covers_implicant")
    /\ fn_args = << <<"-", "-", "1">>, <<"0", "-", "1">> >>
    /\ fn_result = TRUE

\* The terms of sel from term i on, each followed by " + " but the last.
RECURSIVE SumFrom(_, _, _)
SumFrom(sel, names, i) ==
    IF i = Len(sel) THEN ProductTerm(sel[i], names)
    ELSE ProductTerm(sel[i], names) \o " + " \o SumFrom(sel, names, i + 1)

SumOfProducts(sel, names) == IF sel = <<>> THEN "0" ELSE SumFrom(sel, names, 1)

StrictlyAscending(s) == \A i \in 1..(Len(s) - 1) : StrLess(s[i], s[i + 1])

\* C18 (sum of products): build_sum_of_products returns the product terms of
\* the list, in list order, joined with the "+" separator (written " + "),
\* and "0" for the empty list; the list select_cover_for_one_output passes
\* is in ascending lexicographic order.
C18_SumOfProducts ==
    /\ Returned("build_sum_of_products") =>
          fn_result = SumOfProducts(fn_args[1],
                          IF fn_args[2] = None THEN XNames(ListCube) ELSE fn_args[2])
    /\ pc = "done" =>
          /\ StrictlyAscending(selected_pis)
          /\ sop = SumOfProducts(selected_pis, var_names)

C18_Witness ==
    /\ Returned("build_sum_of_products")
    /\ fn_args = << << <<"1", "-">>, <<"0", "1">> >>, None >>
    /\ fn_result = "x1 + x1'x2"

\* C19 (product term): implicant_to_product_term returns the literals of the
\* fixed positions in position order without separator, the name for '1' and
\* the name followed by ' for '0'; "1" when no position is fixed; the names
\* default to x1..xN, x1 naming the first position.
C19_ProductTerm ==
    Returned("implicant_to_product_term") =>
        /\ fn_result = ProductTerm(fn_args[1],
                          IF fn_args[2] = None THEN XNames(Len(fn_args[1])) ELSE fn_args[2])
        /\ (fn_args[2] = None /\ fn_args[1] = <<"1", "1">>) => fn_result = "x1x2"
        /\ (fn_args[2] = None /\ fn_args[1] = <<"0", "-", "-">>) => fn_result = "x1'"
        /\ (\A i \in 1..Len(fn_args[1]) : fn_args[1][i] = "-") => fn_result = "1"

C19_Witness ==
    /\ Returned("implicant_to_product_term")
    /\ fn_args = << <<"0", "-", "1">>, None >>
    /\ fn_result = "x1'x3"

\* rows holds one row per implicant of sel, in order: the implicant, a
\* space, and m indicators, '1' for column k (0-based) and '0' elsewhere.
RowsOf(rows, sel, m, k) ==
    /\ Len(rows) = Len(sel)
    /\ \A r \in 1..Len(sel) :
          LET n == Len(sel[r])
          IN  /\ Len(rows[r]) = n + 1 + m
              /\ SubSeq(rows[r], 1, n) = sel[r]
              /\ rows[r][n + 1] = " "
              /\ \A j \in 1..m : rows[r][n + 1 + j] = (IF j = k + 1 THEN "1" ELSE "0")

\* C20 (cube rows): cubes_for_espresso returns exactly one row per selected
\* implicant, in list order, each the implicant's symbols, a space and one
\* indicator per output column, '1' at the current output only; the rows a
\* call of select_cover_for_one_output returns are those of its cover with
\* as many indicators as the table has columns.
C20_CubeRows ==
    /\ Returned("cubes_for_espresso") =>
          RowsOf(fn_result, fn_args[1], fn_args[2], fn_args[3])
    /\ pc = "done" =>
          RowsOf(cubes, selected_pis, Len(outputs_trits[1]), which_output)

C20_Witness ==
    /\ Returned("cubes_for_espresso")
    /\ fn_args = << << <<"0", "-">>, <<"1", "1">> >>, 3, 1 >>
    /\ fn_result = << <<"0", "-", " ", "0", "1", "0">>, <<"1", "1", " ", "0", "1", "0">> >>

\* The indices of an output of the parsed spec that break the partition:
\* outside [0, 2^N), or in both its on-set and its dc-set.
Offending(name) ==
    LET on_set == outputs_spec[name][1]
        dc_set == outputs_spec[name][2]
    IN  {i \in on_set \cup dc_set : i < 0 \/ i >= Pow2(n_inputs) \/ i \in on_set \cap dc_set}

InvalidOutputs == {name \in DOMAIN outputs_spec : Offending(name) # {}}

CoreNeverRan ==
    /\ inputs_bits = <<>> /\ outputs_trits = <<>> /\ output_names = <<>>
    /\ visited = <<>> /\ all_cubes = <<>> /\ pla_text = ""
    /\ Fresh

\* C16 (validation aborts before the core runs): when an output of the spec
\* has an index outside [0, 2^N) or in both its sets (N >= 1), the builder
\* raises a ValueError that names such an output and lists offending indices
\* of it; a run that raised has no truth table and has not called
\* select_cover_for_one_output, and a run on such a spec never leaves the
\* builder otherwise.
C16_ValidationAborts ==
    /\ (pc # "build" /\ n_inputs >= 1 /\ InvalidOutputs # {}) =>
          /\ pc = "raised"
          /\ error # None
          /\ error[1] = "ValueError"
          /\ error[3] \in InvalidOutputs
          /\ error[4] # {}
          /\ error[4] \subseteq Offending(error[3])
    /\ (InvalidOutputs # {} \/ n_inputs < 1) => pc \in {"build", "raised"}
    /\ pc = "raised" => (error # None /\ CoreNeverRan)
    /\ error # None => pc = "raised"

C16_Witness ==
    /\ pc = "raised"
    /\ n_inputs = 1
    /\ spec_order = <<"g", "f">>
    /\ InvalidOutputs = {"f"}
    /\ error = ValueError("overlap between ON and DC", "f", {1})

\* The n-character binary form of i, most significant bit first.
RECURSIVE BinaryForm(_, _)
BinaryForm(i, n) ==
    IF n = 0 THEN <<>>
    ELSE Append(BinaryForm(i \div 2, n - 1), IF i % 2 = 1 THEN "1" ELSE "0")

\* C17 (the table of a validated spec): the builder returns 2^N distinct
\* input strings, inputs_bits[i] the N-bit MSB-first binary form of i, the
\* output names in ascending order, and 2^N rows of M symbols whose column j
\* holds for row i '1' iff i is in the on-set of the j-th name, '-' iff i is
\* in its dc-set and '0' otherwise.
C17_TableAsSpecified ==
    (pc \notin {"build", "raised"} /\ spec_order # <<>>) =>
        LET rows == 0..(Pow2(n_inputs) - 1)
            M == Cardinality(DOMAIN outputs_spec)
        IN  /\ Len(inputs_bits) = Pow2(n_inputs)
            /\ NoDuplicates(inputs_bits)
            /\ \A i \in rows : inputs_bits[i + 1] = BinaryForm(i, n_inputs)
            /\ Len(output_names) = M
            /\ SeqToSet(output_names) = DOMAIN outputs_spec
            /\ \A j \in 1..(M - 1) : NameOrd(output_names[j]) < NameOrd(output_names[j + 1])
            /\ Len(outputs_trits) = Pow2(n_inputs)
            /\ \A i \in rows :
                  /\ Len(outputs_trits[i + 1]) = M
                  /\ \A j \in 1..M :
                        LET on_set == outputs_spec[output_names[j]][1]
                            dc_set == outputs_spec[output_names[j]][2]
                            y == outputs_trits[i + 1][j]
                        IN  /\ y \in {"0", "1", "-"}
                            /\ y = "1" <=> i \in on_set
                            /\ y = "-" <=> i \in dc_set
                            /\ y = "0" <=> i \notin on_set \cup dc_set

C17_Witness ==
    /\ pc = "for"
    /\ n_inputs = 2
    /\ spec_order = <<"g", "f">>
    /\ output_names = <<"f", "g">>
    /\ inputs_bits = << <<"0", "0">>, <<"0", "1">>, <<"1", "0">>, <<"1", "1">> >>
    /\ outputs_trits = << <<"-", "0">>, <<"0", "1">>, <<"0", "1">>, <<"1", "0">> >>

\* ------------------------------------------------- parse_sum_of_minterms_file
\* A line of the file is given by what lines 67-73 see in it: <<"blank">>
\* (nothing left after strip), <<"comment">> (starts with '#'),
\* <<"nomatch">> (pat.match fails) or <<"match", name, on_body, dc_body>>,
\* the three groups of the pattern; dc_body is None when the optional d{...}
\* part is absent.  A body is a string over [0-9,\s]; the \s* in front of
\* each group is greedy, so a body never starts with whitespace.
MaxLines == 2
BodyLen == 3
BodyChars == {"1", ",", " "}
Bodies == {b \in UNION {[1..n -> BodyChars] : n \in 0..BodyLen} : b = <<>> \/ b[1] # " "}
Lines ==
    {<<"blank">>, <<"comment">>, <<"nomatch">>}
        \cup {<<"match", name, on_body, dc_body>> :
                 name \in OutputNames, on_body \in Bodies, dc_body \in Bodies \cup {None}}

\* str.strip() for the whitespace of a body.
RECURSIVE LStrip(_)
LStrip(s) == IF s # <<>> /\ s[1] = " " THEN LStrip(Tail(s)) ELSE s
RECURSIVE RStrip(_)
RStrip(s) == IF s # <<>> /\ s[Len(s)] = " " THEN RStrip(SubSeq(s, 1, Len(s) - 1)) ELSE s
Strip(s) == RStrip(LStrip(s))

\* body.split(','): the pieces between the commas, empty pieces included.
RECURSIVE SplitFrom(_, _, _)
SplitFrom(s, i, piece) ==
    IF i > Len(s) THEN <<piece>>
    ELSE IF s[i] = "," THEN <<piece>> \o SplitFrom(s, i + 1, <<>>)
         ELSE SplitFrom(s, i + 1, Append(piece, s[i]))
Split(s) == SplitFrom(s, 1, <<>>)

\* int(tok) of a stripped, non-empty token: its decimal value, or the
\* ValueError of int() when a character of the token is no digit.
DigitValue(c) ==
    CASE c = "0" -> 0 [] c = "1" -> 1 [] c = "2" -> 2 [] c = "3" -> 3 [] c = "4" -> 4
      [] c = "5" -> 5 [] c = "6" -> 6 [] c = "7" -> 7 [] c = "8" -> 8 [] c = "9" -> 9
      [] OTHER -> 0 - 1
RECURSIVE DecimalFrom(_, _, _)
DecimalFrom(tok, i, acc) ==
    IF i > Len(tok) THEN acc ELSE DecimalFrom(tok, i + 1, 10 * acc + DigitValue(tok[i]))
IntError(tok) == <<"ValueError", "invalid literal for int() with base 10", tok>>
int(tok) ==
    IF \A i \in 1..Len(tok) : DigitValue(tok[i]) >= 0
    THEN <<None, DecimalFrom(tok, 1, 0)>>
    ELSE <<IntError(tok), 0>>

\* parse_list lines 75-84 on the pieces from index i on: <<error, set>>.
RECURSIVE ParseTokens(_, _, _)
ParseTokens(pieces, i, xs) ==
    IF i > Len(pieces) THEN <<None, xs>>
    ELSE LET tok == Strip(pieces[i])
         IN  IF tok = <<>> THEN ParseTokens(pieces, i + 1, xs)
             ELSE IF int(tok)[1] # None THEN <<int(tok)[1], {}>>
                  ELSE ParseTokens(pieces, i + 1, xs \cup {int(tok)[2]})
parse_list(body) ==
    IF body = None THEN <<None, {}>>
    ELSE IF Strip(body) = <<>> THEN <<None, {}>>
         ELSE ParseTokens(Split(body), 1, {})

\* spec[name] = value: a new key goes last in dict order, a key already
\* present keeps its place.
DictSet(spec, name, value) ==
    [k \in (DOMAIN spec) \cup {name} |-> IF k = name THEN value ELSE spec[k]]
DictOrderSet(order, name) ==
    IF name \in SeqToSet(order) THEN order ELSE Append(order, name)

FormatError(n) == <<"ValueError", "Line: invalid format", n>>
NoOutputsError == <<"ValueError", "No outputs found in the file.">>

\* One iteration of the loop of line 66 on the next line of the file.
ReadLine ==
    /\ pc = "parse"
    /\ lineno < MaxLines
    /\ lineno' = lineno + 1
    /\ \E raw \in Lines :
          /\ line' = raw
          /\ IF raw[1] \in {"blank", "comment"}
             THEN UNCHANGED <<pc, error, outputs_spec, spec_order>>
             ELSE IF raw[1] = "nomatch"
                  THEN /\ error' = FormatError(lineno')
                       /\ pc' = "raised"
                       /\ UNCHANGED <<outputs_spec, spec_order>>
                  ELSE LET on == parse_list(raw[3])
                           dc == parse_list(raw[4])
                       IN  IF on[1] # None
                           THEN /\ error' = on[1]
                                /\ pc' = "raised"
                                /\ UNCHANGED <<outputs_spec, spec_order>>
                           ELSE IF dc[1] # None
                                THEN /\ error' = dc[1]
                                     /\ pc' = "raised"
                                     /\ UNCHANGED <<outputs_spec, spec_order>>
                                ELSE /\ outputs_spec' = DictSet(outputs_spec, raw[2], <<on[2], dc[2]>>)
                                     /\ spec_order' = DictOrderSet(spec_order, raw[2])
                                     /\ UNCHANGED <<pc, error>>
    /\ UNCHANGED <<n_inputs, output_names, visited, all_cubes, pla_text, direct_call, manager,
                   args, call_locals>>

\* The file has no further line: lines 89-91.
EndOfFile ==
    /\ pc = "parse"
    /\ IF spec_order = <<>>
       THEN error' = NoOutputsError /\ pc' = "raised"
       ELSE error' = error /\ pc' = "parsed"
    /\ UNCHANGED <<parse_locals, n_inputs, outputs_spec, spec_order, output_names, visited,
                   all_cubes, pla_text, direct_call, manager, args, call_locals>>

\* parse_sum_of_minterms_file on every file of up to MaxLines lines.
InitParse ==
    /\ pc = "parse"
    /\ NoCall
    /\ NoRun
    /\ NoDirectCall
    /\ NoParse
    /\ NoManager

NextParse ==
    \/ ReadLine
    \/ EndOfFile

SpecParse == InitParse /\ [][NextParse]_vars

\* C21: the parser reads the lines in order; blank and comment lines change
\* nothing; the only error raised while reading a line is the one of a line
\* that is neither and does not match the pattern, and it names that line's
\* 1-based number; a line that matches stores its name with its on-set and
\* dc-set (empty when d{...} is absent); a file without output line raises.
C21_MalformedLinesNameTheLine ==
    /\ (pc = "raised" /\ lineno > 0 /\ error # NoOutputsError)
          => (line[1] = "nomatch" /\ error = FormatError(lineno))
    /\ (pc = "raised" /\ error = NoOutputsError) => spec_order = <<>>
    /\ (pc = "parsed") => (spec_order # <<>> /\ error = None)

\* Number of still-uncovered on-set assignments the implicant q covers, its
\* don't-care positions and its literals.
Gain(q) == Cardinality({m \in uncovered : implicant_covers_input(q, Bits(m))})
Dashes(q) == Cardinality({k \in 1..Len(q) : q[k] = "-"})
Literals(q) == Cardinality({k \in 1..Len(q) : q[k] # "-"})

\* Entry i of remaining is at least as good as entry j by gain, then
\* don't-care positions, then fewer literals, then earlier position.
Beats(i, j) ==
    LET p == remaining[i]
        q == remaining[j]
    IN  \/ Gain(p) > Gain(q)
        \/ Gain(p) = Gain(q) /\ Dashes(p) > Dashes(q)
        \/ Gain(p) = Gain(q) /\ Dashes(p) = Dashes(q) /\ Literals(p) < Literals(q)
        \/ Gain(p) = Gain(q) /\ Dashes(p) = Dashes(q) /\ Literals(p) = Literals(q) /\ i <= j

PickIsFirstBest ==
    (pc = "loop" /\ selected' # selected) =>
        /\ remaining = SelectSeq(pis, LAMBDA q : q \notin selected)
        /\ \E i \in 1..Len(remaining) :
              /\ selected' = selected \cup {remaining[i]}
              /\ \A j \in 1..Len(remaining) : Beats(i, j)

\* C22 (greedy pick rule): every iteration of greedy_complete_cover that
\* selects an implicant selects, among the implicants of pis not yet selected,
\* one with the maximum number of still-uncovered on-set assignments covered,
\* among these one with the most don't-care positions, among these one with
\* the fewest literals, and among these the first in the order of pis.
C22_GreedyPickRule ==
    [][PickIsFirstBest]_vars

\* A pick has been made and the next pick has to break a tie of two
\* implicants equal in gain, don't-care positions and literals.
C22_Witness ==
    /\ pc = "loop"
    /\ selected # epis
    /\ uncovered # {}
    /\ \E i, j \in 1..Len(remaining) :
          /\ i < j
          /\ Gain(remaining[i]) = Gain(remaining[j])
          /\ Dashes(remaining[i]) = Dashes(remaining[j])
          /\ Gain(remaining[i]) > 0
          /\ \A k \in 1..Len(remaining) : Beats(i, k)

\* greedy_complete_cover run to its end: the loop is sequential code, so a
\* step that is possible is eventually taken.
SpecGreedyFair == SpecGreedy /\ WF_vars(NextGreedy)

\* The implicants of pis not selected that cover, by the covers dict, an
\* assignment of the set unc.
AddingCoverage(sel, unc) ==
    {pi \in SeqToSet(pis) \ sel : CoversGet(covers, pi) \cap unc # {}}

\* An iteration that does not stop selects an implicant that adds coverage
\* and strictly shrinks uncovered; the loop stops only with uncovered empty or
\* with no unselected implicant adding coverage, and returns its locals.
IterationShrinksOrStops ==
    pc = "loop" =>
        \/ /\ pc' = "loop"
           /\ \E pi \in AddingCoverage(selected, uncovered) : selected' = selected \cup {pi}
           /\ uncovered' \subseteq uncovered /\ uncovered' # uncovered
        \/ /\ pc' = "render"
           /\ uncovered = {} \/ AddingCoverage(selected, uncovered) = {}
           /\ selected' = selected /\ uncovered' = uncovered

\* C23 (greedy stop and termination): for arbitrary arguments
\* greedy_complete_cover returns; every iteration that does not stop strictly
\* shrinks uncovered and selects an implicant that adds coverage; it stops
\* only when uncovered is empty or no unselected implicant covers a
\* still-uncovered assignment.
C23_GreedyTerminates ==
    /\ [][IterationShrinksOrStops]_vars
    /\ <>(pc = "render")

\* The call returned after a pick with assignments left uncovered that no
\* unselected implicant covers.
C23_Witness ==
    /\ pc = "render"
    /\ selected # epis
    /\ uncovered # {}
    /\ SeqToSet(pis) \ selected # {}

\* The implicants of pis covering the on-set assignment m, read from the
\* table rows, and the implicants that are the sole candidate of some
\* on-set assignment.
Candidates(m) == {pi \in SeqToSet(pis) : implicant_covers_input(pi, Bits(m))}
SoleCandidates == {pi \in SeqToSet(pis) : \E m \in OnSet : Candidates(m) = {pi}}

\* On-set assignments the implicant q covers that no essential covers.
LeftAfterEpis(q) ==
    {m \in OnSet : implicant_covers_input(q, Bits(m))
                   /\ ~ \E p \in epis : implicant_covers_input(p, Bits(m))}

AfterPickEpis == pc \in {"greedy", "loop", "render", "done"}

\* C24 (single-pass essentials): what pick_epis returns as essential is
\* exactly the set of implicants that are the sole candidate of an on-set
\* assignment in the coverage table built from pis, and the table still is
\* that table after the call.
C24_SinglePassEssentials ==
    AfterPickEpis =>
        /\ epis = SoleCandidates
        /\ minterm_to_pis = [m \in OnSet |-> Candidates(m)]

\* pick_epis returned essentials, and an implicant that is not among them
\* has become the only useful way to cover an assignment: every other
\* candidate of that assignment covers, of what the essentials leave, less.
C24_Witness ==
    /\ pc = "greedy"
    /\ epis # {}
    /\ \E pj \in SeqToSet(pis) \ epis : \E m \in LeftAfterEpis(pj) :
          \A q \in Candidates(m) \ {pj} :
              LeftAfterEpis(q) \subseteq LeftAfterEpis(pj) /\ LeftAfterEpis(q) # LeftAfterEpis(pj)

\* Length N of the terms of the level loop.
TermLen == IF current = <<>> THEN 0 ELSE Len(current[1])

\* The terms of cur all have k don't-care positions.
AtLevel(cur, k) == \A i \in 1..Len(cur) : Dashes(cur[i]) = k

\* A call of group_once on level k that does not end the loop yields level
\* k + 1, each new term with one fixed position less than two terms of level
\* k that combine to it.
NextLevel ==
    (pc = "group" /\ pc' = "group" /\ current' # current) =>
        \E k \in 0..(TermLen - 1) :
            /\ AtLevel(current, k)
            /\ AtLevel(current', k + 1)
            /\ \A i \in 1..Len(current') :
                  \E a, b \in SeqToSet(current) :
                     /\ combine_if_one_bit_diff(a, b) = current'[i]
                     /\ Literals(current'[i]) < Literals(a)
                     /\ Literals(current'[i]) < Literals(b)

\* C25 (prime generation terminates): the k-th call of group_once in
\* derive_prime_implicants (k = 0, 1, ...) works on terms with exactly k
\* don't-care positions, k <= N, and each further level has strictly fewer
\* fixed positions than the terms that produced it; the loop ends, after at
\* most N + 1 calls, and the function returns.
C25_DeriveTerminates ==
    /\ [](pc = "group" => \E k \in 0..TermLen : AtLevel(current, k))
    /\ [][NextLevel]_vars
    /\ <>(pc = "return")

\* The loop ended with its call on level N: the one term without fixed
\* position, after N + 1 calls of group_once.
C25_Witness ==
    /\ pc = "reduce"
    /\ fn = "derive_prime_implicants"
    /\ current = <<[i \in 1..DeriveN |-> "-"]>>

\* Lexicographic order of cubes of equal length over '-' < '0' < '1'.
SymbolRank(ch) == CASE ch = "-" -> 0 [] ch = "0" -> 1 [] ch = "1" -> 2
LexBefore(a, b) ==
    \E i \in 1..Len(a) :
        /\ \A k \in 1..(i - 1) : a[k] = b[k]
        /\ SymbolRank(a[i]) < SymbolRank(b[i])
LexAscending(s) == \A i, j \in 1..Len(s) : i < j => LexBefore(s[i], s[j])

Reversed(s) == [i \in 1..Len(s) |-> s[Len(s) + 1 - i]]

\* C26 (ordering): the list derive_prime_implicants returns is strictly
\* ascending in the lexicographic order over '-' < '0' < '1' and is the list
\* returned for the same terms given in reverse and in sorted order without
\* duplicates; the prime-implicant list and the selected-implicant list of
\* select_cover_for_one_output are strictly ascending too.
C26_Ordering ==
    /\ Returned("derive_prime_implicants") =>
          /\ LexAscending(fn_result)
          /\ fn_result = derive_prime_implicants(Reversed(fn_args[1]))
          /\ fn_result = derive_prime_implicants(SortedSet(SeqToSet(fn_args[1])))
    /\ (AfterDerive /\ fn = "") => LexAscending(pis)
    /\ pc = "done" => LexAscending(selected_pis)

\* The call returned two or more implicants for terms given out of order
\* and with a duplicate.
C26_Witness ==
    /\ Returned("derive_prime_implicants")
    /\ ~ LexAscending(fn_args[1])
    /\ Reversed(fn_args[1]) # fn_args[1]
    /\ Cardinality(SeqToSet(fn_args[1])) < Len(fn_args[1])
    /\ Len(fn_result) >= 2

\* The spec's order on the terms the level loop found prime: discard the
\* implicants that cover an off-set assignment, then drop every implicant
\* subsumed by a different implicant still in the set.
FilterThenReduce ==
    LET off == {Bits(m) : m \in OffSet}
        kept == {pi \in prime_implicants : ~ \E x \in off : implicant_covers_input(pi, x)}
    IN  {pi \in kept : ~ \E pj \in kept : pj # pi /\ implicant_covers_implicant(pj, pi)}

\* C27 (off-set filter is a no-op): on every valid table the off-set filter,
\* run after the redundancy elimination of derive_prime_implicants, removes
\* no implicant, and the list it leaves holds exactly the implicants that
\* filtering first and eliminating redundancy afterwards would give.
C27_FilterIsNoOp ==
    /\ pc = "filter" => \A i \in 1..Len(pis) : \A m \in OffSet : ~ implicant_covers_input(pis[i], Bits(m))
    /\ pc = "tables" =>
          /\ pis = RemoveRedundant(prime_implicants)
          /\ SeqToSet(pis) = FilterThenReduce
          /\ off_bits = {Bits(m) : m \in OffSet}

\* The filter has run on a table with off-set rows and don't-cares whose
\* implicants span don't-care assignments.
C27_Witness ==
    /\ pc = "tables"
    /\ off_bits # {} /\ DcSet # {}
    /\ Len(pis) >= 2
    /\ \E i \in 1..Len(pis) : \E m \in DcSet : implicant_covers_input(pis[i], Bits(m))

\* -------------------------------------------------------------------- BDD
\* A BDDNode is <<var, low, high>> with the ids of its children; the node is
\* kept under its id in all_nodes.  The children of a terminal are None,
\* written as the id NoNode.
BddVars == 2
MaxIds == 4
NoNode == 0 - 1
Terminal == <<0 - 1, NoNode, NoNode>>

\* The manager fields an operation changes: <<next_id, unique_table, all_nodes>>.
\* BDD.__init__ lines 48-63.
NewManager == <<2, <<>>, [id \in {0, 1} |-> Terminal]>>

\* Variant of make_node without the reduction rule of lines 73-74.
make_node_unreduced(mgr, var, low, high) ==
    LET key == <<var, low, high>>
    IN  IF key \in DOMAIN mgr[2] THEN <<mgr[2][key], mgr>>
        ELSE <<mgr[1],
               <<mgr[1] + 1,
                 DictSet(mgr[2], key, mgr[1]),
                 DictSet(mgr[3], mgr[1], key)>> >>

\* make_node lines 73-86 on the nodes with ids low and high:
\* <<id of the node returned, manager>>.
make_node(mgr, var, low, high) ==
    LET key == <<var, low, high>>
    IN  IF low = high THEN <<low, mgr>>
        ELSE IF key \in DOMAIN mgr[2] THEN <<mgr[2][key], mgr>>
             ELSE <<mgr[1],
                    <<mgr[1] + 1,
                      DictSet(mgr[2], key, mgr[1]),
                      DictSet(mgr[3], mgr[1], key)>> >>

\* _shannon_expand lines 120-140 on truth_table[start:end] (0-based, end
\* exclusive): <<id of the node returned, manager>>.
RECURSIVE shannon_expand(_, _, _, _, _, _)
shannon_expand(mgr, n_vars, truth_table, start, end, var) ==
    IF \A i \in start..(end - 1) : truth_table[i + 1] = 0 THEN <<0, mgr>>
    ELSE IF \A i \in start..(end - 1) : truth_table[i + 1] = 1 THEN <<1, mgr>>
    ELSE IF var >= n_vars THEN <<IF truth_table[start + 1] = 1 THEN 1 ELSE 0, mgr>>
    ELSE LET mid == start + ((end - start) \div 2)
             f_low == shannon_expand(mgr, n_vars, truth_table, start, mid, var + 1)
             f_high == shannon_expand(f_low[2], n_vars, truth_table, mid, end, var + 1)
         IN  make_node(f_high[2], var, f_low[1], f_high[1])

SizeError(len, n_vars) == <<"ValueError", "Truth table size != 2^num_vars", len, n_vars>>

\* build_from_truth_table lines 99-104: <<error, id of the root, manager>>.
build_from_truth_table(mgr, n_vars, truth_table) ==
    IF Len(truth_table) # Pow2(n_vars)
    THEN <<SizeError(Len(truth_table), n_vars), NoNode, mgr>>
    ELSE LET r == shannon_expand(mgr, n_vars, truth_table, 0, Len(truth_table), 0)
         IN  <<None, r[1], r[2]>>

\* Variant of TruthTableOf that sets the don't-care indices to 1.
TruthTableDcAsOne(n, on_set, dc_set) ==
    [k \in 1..Pow2(n) |-> IF (k - 1) \in on_set \/ (k - 1) \in dc_set THEN 1 ELSE 0]

\* The list of lines 160-163.
TruthTableOf(n, on_set, dc_set) ==
    [k \in 1..Pow2(n) |-> IF (k - 1) \in on_set THEN 1 ELSE 0]

\* build_from_minterm_spec lines 160-166.
build_from_minterm_spec(mgr, n_vars, n, on_set, dc_set) ==
    build_from_truth_table(mgr, n_vars, TruthTableOf(n, on_set, dc_set))

\* A manager BDD(num_vars) right after its construction.
InitBdd ==
    /\ pc = "bdd"
    /\ num_vars \in 0..BddVars
    /\ next_id = NewManager[1]
    /\ unique_table = NewManager[2]
    /\ all_nodes = NewManager[3]
    /\ NoCall
    /\ NoRun
    /\ NoDirectCall
    /\ NoParse

\* A call make_node(var, low, high) on any variable index, in range or
\* not, and any two nodes of the manager.
MakeNode ==
    /\ pc = "bdd"
    /\ next_id < MaxIds
    /\ \E var \in (0 - 1)..num_vars : \E low, high \in DOMAIN all_nodes :
          LET r == make_node(<<next_id, unique_table, all_nodes>>, var, low, high)
          IN  /\ fn' = "make_node"
              /\ fn_args' = <<var, low, high>>
              /\ fn_result' = r[1]
              /\ next_id' = r[2][1]
              /\ unique_table' = r[2][2]
              /\ all_nodes' = r[2][3]
    /\ error' = None
    /\ UNCHANGED <<pc, num_vars, parse_locals, n_inputs, outputs_spec, spec_order, output_names,
                   visited, all_cubes, pla_text, args, call_locals>>

\* A call build_from_minterm_spec(n_inputs, on_set, dc_set); the manager is
\* left as it is when the call raises.
Build ==
    /\ pc = "bdd"
    /\ next_id < MaxIds
    /\ \E n \in 0..BddVars : \E on_set, dc_set \in SUBSET (0..(Pow2(n) - 1)) :
          LET r == build_from_minterm_spec(<<next_id, unique_table, all_nodes>>, num_vars,
                                           n, on_set, dc_set)
          IN  /\ fn' = "build_from_minterm_spec"
              /\ fn_args' = <<n, on_set, dc_set>>
              /\ error' = r[1]
              /\ fn_result' = r[2]
              /\ next_id' = r[3][1]
              /\ unique_table' = r[3][2]
              /\ all_nodes' = r[3][3]
    /\ UNCHANGED <<pc, num_vars, parse_locals, n_inputs, outputs_spec, spec_order, output_names,
                   visited, all_cubes, pla_text, args, call_locals>>

NextBdd ==
    \/ MakeNode
    \/ Build

SpecBdd == InitBdd /\ [][NextBdd]_vars

\* Value of the node with the given id on assignment i of n variables:
\* high child when the bit of the node's variable is 1, low child when 0,
\* variable 0 the most significant bit.
RECURSIVE Eval(_, _, _)
Eval(id, n, i) ==
    IF id \in {0, 1} THEN id
    ELSE LET node == all_nodes[id]
             bit == (i \div Pow2(n - 1 - node[1])) % 2
         IN  Eval(IF bit = 1 THEN node[3] ELSE node[2], n, i)

BuildReturned == pc = "bdd" /\ fn = "build_from_minterm_spec" /\ error = None
BuildRaised == pc = "bdd" /\ fn = "build_from_minterm_spec" /\ error # None

\* C28 (BDD function): the root build_from_minterm_spec returns evaluates on
\* assignment i to 1 iff i is in the on-set, so to 0 on every don't-care
\* index outside the on-set, which is the golden table [1 if i in on_set
\* else 0]; the call raises the size ValueError exactly when the table's
\* length 2^n_inputs is not 2^num_vars.
C28_BddFunction ==
    /\ BuildReturned =>
          /\ fn_args[1] = num_vars
          /\ \A i \in 0..(Pow2(num_vars) - 1) :
                /\ Eval(fn_result, num_vars, i) = 1 <=> i \in fn_args[2]
                /\ i \in fn_args[3] \ fn_args[2] => Eval(fn_result, num_vars, i) = 0
    /\ BuildRaised =>
          /\ fn_args[1] # num_vars
          /\ error = SizeError(Pow2(fn_args[1]), num_vars)

\* A build returned the root of a function of two variables with a
\* don't-care index, on a manager that held nodes before the call.
C28_Witness ==
    /\ BuildReturned
    /\ num_vars = BddVars
    /\ fn_args[2] = {1, 2}
    /\ fn_args[3] = {3}
    /\ fn_result >= 2
    /\ next_id >= 6

\* Ids of the nodes reachable from the node id in at most k steps.
RECURSIVE ReachableIn(_, _)
ReachableIn(id, k) ==
    IF k = 0 \/ id \in {0, 1} THEN {id}
    ELSE {id} \cup ReachableIn(all_nodes[id][2], k - 1) \cup ReachableIn(all_nodes[id][3], k - 1)
Reachable(id) == ReachableIn(id, next_id)

\* Every edge from a node reachable from the root to a non-terminal child
\* goes to a greater variable index.
VarsIncrease(root) ==
    \A id \in Reachable(root) \ {0, 1} :
        \A child \in {all_nodes[id][2], all_nodes[id][3]} \ {0, 1} :
            all_nodes[id][1] < all_nodes[child][1]

\* C29 (reduced and canonical): after any sequence of make_node calls and
\* builds no non-terminal node has equal children, no two non-terminal nodes
\* have the same (var, low.id, high.id), ids 0 and 1 are the terminals and
\* every other id names one node of the unique table, all_nodes has two
\* nodes more than the unique table, and the variable index strictly
\* increases along every path from the root a build returned.
C29_ReducedCanonical ==
    pc = "bdd" =>
        /\ \A id \in DOMAIN all_nodes \ {0, 1} : all_nodes[id][2] # all_nodes[id][3]
        /\ \A a, b \in DOMAIN all_nodes \ {0, 1} : a # b => all_nodes[a] # all_nodes[b]
        /\ DOMAIN all_nodes = 0..(next_id - 1)
        /\ all_nodes[0] = Terminal /\ all_nodes[1] = Terminal
        /\ \A key \in DOMAIN unique_table :
              unique_table[key] \in DOMAIN all_nodes \ {0, 1} /\ all_nodes[unique_table[key]] = key
        /\ Cardinality(DOMAIN all_nodes) = Cardinality(DOMAIN unique_table) + 2
        /\ BuildReturned => VarsIncrease(fn_result)

\* A build of the function x1 of two variables dropped the test of x0 and
\* returned a node that was in the unique table before the call.
C29_Witness ==
    /\ BuildReturned
    /\ num_vars = BddVars
    /\ fn_args[2] = {1, 3}
    /\ fn_result = 2
    /\ all_nodes[2] = <<1, 0, 1>>
    /\ next_id = 3

\* ------------------------------------------------- _random_on_dc_indices
\* A direct call with keyword arguments on_ratio = on_q / RatioDen and
\* dc_ratio = dc_q / RatioDen (binary fractions, so the float products of
\* lines 213-215 are exact); fn_args is <<n_inputs, n_outputs, on_q, dc_q,
\* ensure_on>>.  R.sample is any choice of that many distinct elements, for
\* every seed.
GenN == 2
GenOutputs == 2
RatioDen == 4
RatioMax == 4

\* int(x) of the quotient a / b, b > 0: truncation toward zero.
IntOfQuotient(a, b) == IF a >= 0 THEN a \div b ELSE 0 - ((0 - a) \div b)

Max2(a, b) == IF a >= b THEN a ELSE b

\* Lines 212-215: <<n_rows, max_on, want_on, want_dc>>.
GeneratorCounts(n, on_q, dc_q) ==
    LET n_rows == Pow2(n)
        max_on == Max2(0, IntOfQuotient(n_rows, 2))
        want_on == Min2(IntOfQuotient(on_q * n_rows, RatioDen), max_on)
        want_dc == Max2(0, IntOfQuotient(dc_q * n_rows, RatioDen))
    IN  <<n_rows, max_on, want_on, want_dc>>

\* Lines 221-223: the size of the sample for the on-set.
OnCount(want_on, max_on, ensure_on) ==
    IF ensure_on /\ want_on = 0 /\ max_on > 0 THEN 1 ELSE want_on

\* set(R.sample(population, k)) if k > 0 else set(): the sets it can give.
Samples(population, k) ==
    IF k > 0 THEN {S \in SUBSET population : Cardinality(S) = k} ELSE {{}}

InitGenerate ==
    /\ pc = "generate"
    /\ fn = "random_on_dc_indices"
    /\ fn_args \in (1..GenN) \X (0..GenOutputs) \X ((0 - RatioMax)..RatioMax)
                      \X ((0 - RatioMax)..RatioMax) \X BOOLEAN
    /\ fn_result = None
    /\ NoCall
    /\ NoRun
    /\ NoParse
    /\ NoManager

\* One iteration of the loop of line 219: output f<j> gets its two samples.
GenerateOutput ==
    /\ pc = "generate"
    /\ Len(spec_order) < fn_args[2]
    /\ LET c == GeneratorCounts(fn_args[1], fn_args[3], fn_args[4])
           name == "f" \o ToString(Len(spec_order) + 1)
           all_indices == 0..(c[1] - 1)
           on_k == OnCount(c[3], c[2], fn_args[5])
       IN  \E on_set \in Samples(all_indices, on_k) :
              LET left == all_indices \ on_set
                  dc_k == Min2(c[4], Cardinality(left))
              IN  \E dc_set \in Samples(left, dc_k) :
                     /\ outputs_spec' = DictSet(outputs_spec, name, <<on_set, dc_set>>)
                     /\ spec_order' = DictOrderSet(spec_order, name)
    /\ UNCHANGED <<pc, n_inputs, output_names, error, visited, all_cubes, pla_text, direct_call,
                   parse_locals, manager, args, call_locals>>

\* Line 228: the dict is returned.
GenerateReturn ==
    /\ pc = "generate"
    /\ Len(spec_order) = fn_args[2]
    /\ pc' = "generated"
    /\ UNCHANGED <<run_locals, direct_call, parse_locals, manager, args, call_locals>>

NextGenerate ==
    \/ GenerateOutput
    \/ GenerateReturn

SpecGenerate == InitGenerate /\ [][NextGenerate]_vars

\* C30 as claimed: for every n_inputs >= 1, n_outputs, on_ratio and
\* dc_ratio every output of the generated spec has disjoint on-set and dc-set
\* within [0, 2^N), at most half of the indices in the on-set and, with
\* ensure_on, a non-empty on-set; the spec passes the builder's validation.
C30_GeneratedSpecsValid ==
    pc = "generated" =>
        /\ \A name \in DOMAIN outputs_spec :
              LET on_set == outputs_spec[name][1]
                  dc_set == outputs_spec[name][2]
              IN  /\ on_set \cap dc_set = {}
                  /\ on_set \cup dc_set \subseteq 0..(Pow2(fn_args[1]) - 1)
                  /\ 2 * Cardinality(on_set) <= Pow2(fn_args[1])
                  /\ fn_args[5] => on_set # {}
        /\ SpecPassesValidation(fn_args[1], outputs_spec)

====
